---- MODULE Spec2Model ----
(***************************************************************************)
(* STAMP (BDNYC): the background job manager (routes/jobs.py, state.py),   *)
(* the pipeline's progress reporting (processing.py) and the disk-backed   *)
(* dataset cache (cache_manager.py).                                       *)
(*                                                                         *)
(* Conventions of the model                                                *)
(*  - Python None is NoInt for numbers and the empty string for texts.     *)
(*  - The wall clock `now` counts hours.                                   *)
(*  - Sizes of cache files count gigabytes.                                *)
(*  - percent is kept in PctUnit-ths of a percent; a fraction that is not  *)
(*    representable is truncated.                                          *)
(*  - A file is [exists, ok, body]: ok = FALSE is a file whose content     *)
(*    cannot be parsed (a write that stopped half way).                    *)
(*  - Creating, reading, writing and parsing files can fail; removing a    *)
(*    file the program wrote itself is taken to succeed.                   *)
(***************************************************************************)
EXTENDS Integers, Sequences, FiniteSets, TLC

(***************************************************************************)
(* Bounds of the model                                                     *)
(***************************************************************************)
\* the clock stops at MaxTime hours
MaxTime == 48
\* hours added by one tick of the clock
TickHours == 24
\* an entry is read at most MaxAccess times
MaxAccess == 2
\* at most MaxFaults steps of cache operations fail
MaxFaults == 1
\* resolution of percent: units per percent
PctUnit == 10
\* size of a pickled dataset, in gigabytes per time point
GbPerPoint == 2
\* a time array has at most MaxSamples samples
MaxSamples == 4
\* a time sample is at most MaxHalfHours half-hours
MaxHalfHours == 3
\* a gap threshold is at most MaxGap half-hours
MaxGap == 2
\* a wavelength sample is at most MaxWave
MaxWave == 4
\* a time sample of a filtered series is at most MaxHours
MaxHours == 2
\* a batch has at most MaxBatch integrations
MaxBatch == 2
\* the wavelengths an integration covers lie in 0..MaxCover
MaxCover == 3
\* a FITS file has at most MaxHdus EXTRACT1D extensions
MaxHdus == 2
\* an EXTRACT1D table has at most MaxRows rows
MaxRows == 2
\* INT_TIMES has at most MaxInts entries
MaxInts == 2
\* concurrent jobs make at most MaxCalls calls of the cache together
MaxCalls == 3

(***************************************************************************)
(* Program constants                                                       *)
(***************************************************************************)
NoInt == -1
TTL_HOURS == 24
MAX_CACHE_GB == 10
\* the default gap_threshold=0.5 hours, in half-hours
GAP_THRESHOLD == 1
\* float('nan') among the time samples
NaN == -99

\* the flag left out of the hashed stream
StrOfFlagDropped(use_interpolation) == <<>>

\* str(True) and str(False), as the bytes fed to the hasher
StrOfFlag(use_interpolation) ==
    IF use_interpolation THEN <<84, 114, 117, 101>>
                         ELSE <<70, 97, 108, 115, 101>>

\* contents of the archives a client can submit
ArchiveBytes == {<<1>>, <<2>>, <<3>>}

(***************************************************************************)
(* Dataset cache (cache_manager.py)                                        *)
(***************************************************************************)
\* the digest is an injective image of the hashed stream: the stream itself
ComputeHash(bytes, use_interpolation, num_integrations) ==
    bytes \o StrOfFlag(use_interpolation)

CacheKeys == {ComputeHash(b, f, 0) : b \in ArchiveBytes, f \in BOOLEAN}

NoData == [src |-> <<>>, interp |-> FALSE, time_points |-> 0, gb |-> 0]
NoMeta == [timestamp |-> 0, last_access |-> 0, access_count |-> 0,
           cache_key |-> <<>>, size |-> 0]
NoPkl == [exists |-> FALSE, ok |-> FALSE, body |-> NoData]
NoSidecar == [exists |-> FALSE, ok |-> FALSE, body |-> NoMeta]

\* the cache directory: per key a data file and a sidecar.  The clock counts
\* hours and the last_access stamps are float seconds, so lru keeps the order
\* of the stamps of the readable sidecars, least recently stamped first
EmptyCache == [pkl |-> [k \in CacheKeys |-> NoPkl],
               meta |-> [k \in CacheKeys |-> NoSidecar],
               lru |-> <<>>]

\* the stamps in order once the sidecar of cache_key is gone or unreadable
Unstamp(lru, cache_key) ==
    LET Other(k) == k # cache_key IN SelectSeq(lru, Other)

\* the stamps in order once the sidecar of cache_key is stamped with now
Stamp(lru, cache_key) == Append(Unstamp(lru, cache_key), cache_key)

TtlSeconds == TTL_HOURS * 3600

\* the age test with >= in place of >
ExpiredAtTtl(age_hours) == age_hours * 3600 >= TtlSeconds

\* cache_manager.py:118-119
Expired(age_hours) == age_hours * 3600 > TtlSeconds

\* a removal that leaves the sidecar behind
RemoveEntryDataOnly(c, cache_key) ==
    [pkl |-> [c.pkl EXCEPT ![cache_key] = NoPkl],
     meta |-> c.meta,
     lru |-> c.lru]

\* cache_manager.py:202-222
RemoveEntry(c, cache_key) ==
    [pkl |-> [c.pkl EXCEPT ![cache_key] = NoPkl],
     meta |-> [c.meta EXCEPT ![cache_key] = NoSidecar],
     lru |-> Unstamp(c.lru, cache_key)]

\* a load that returns the first time sample only
UnpickleFirstSample(file) == [file.body EXCEPT !.time_points = 1]

\* pickle.load of the data file
Unpickle(file) == file.body

\* Points at which a cache operation can fail
GetFails == {"none", "hash", "meta_read", "data_read", "meta_write"}
SetFails == {"none", "hash", "data_write", "meta_write"}

\* get(file_path, use_interpolation): [hit, data, cache], and in why the
\* line the call logs
CacheGet(c, bytes, use_interpolation, t, fail) ==
    LET cache_key == ComputeHash(bytes, use_interpolation, NoInt)
        miss == [hit |-> FALSE, why |-> "error", data |-> NoData, cache |-> c]
    IN  IF fail = "hash" THEN miss
        ELSE IF ~c.pkl[cache_key].exists \/ ~c.meta[cache_key].exists
        THEN [miss EXCEPT !.why = "not found"]
        ELSE IF fail = "meta_read" \/ ~c.meta[cache_key].ok THEN miss
        ELSE LET metadata == c.meta[cache_key].body
                 age == t - metadata.timestamp
             IN  IF Expired(age)
                 THEN [miss EXCEPT !.why = "expired",
                                   !.cache = RemoveEntry(c, cache_key)]
                 ELSE IF fail = "data_read" \/ ~c.pkl[cache_key].ok THEN miss
                 ELSE IF fail = "meta_write"
                 THEN [miss EXCEPT
                          !.cache.meta[cache_key] =
                              [exists |-> TRUE, ok |-> FALSE, body |-> NoMeta],
                          !.cache.lru = Unstamp(c.lru, cache_key)]
                 ELSE [hit |-> TRUE, why |-> "hit",
                       data |-> Unpickle(c.pkl[cache_key]),
                       cache |-> [c EXCEPT
                           !.meta[cache_key].body =
                               [metadata EXCEPT !.last_access = t,
                                                !.access_count = @ + 1],
                           !.lru = Stamp(@, cache_key)]]

\* entries whose sidecar _enforce_size_limit can read
Readable(c) == {k \in CacheKeys : c.meta[k].exists /\ c.meta[k].ok}

RECURSIVE SumSizes(_, _)
SumSizes(c, ks) ==
    IF ks = {} THEN 0
    ELSE LET k == CHOOSE x \in ks : TRUE
         IN  c.meta[k].body.size + SumSizes(c, ks \ {k})

\* entries.sort(key=last_access): the readable entries, oldest stamp first
SortByLastAccess(c) ==
    LET CanRead(k) == k \in Readable(c) IN SelectSeq(c.lru, CanRead)

\* the loop stopping at the cap itself
AtTargetFullCap(total) == total <= MAX_CACHE_GB

\* target_size = max_cache_bytes * 0.8
AtTarget(total) == total * 10 <= MAX_CACHE_GB * 8

\* the removal loop of _enforce_size_limit, entries taken from the snapshot c0
RECURSIVE EvictLoop(_, _, _, _, _)
EvictLoop(c0, c, ord, i, total) ==
    IF i > Len(ord) \/ AtTarget(total) THEN c
    ELSE EvictLoop(c0, RemoveEntry(c, c0.meta[ord[i]].body.cache_key), ord,
                   i + 1, total - c0.meta[ord[i]].body.size)

EnforceSizeLimit(c) ==
    LET total_size == SumSizes(c, Readable(c))
    IN  IF total_size > MAX_CACHE_GB
        THEN EvictLoop(c, c, SortByLastAccess(c), 1, total_size)
        ELSE c

\* a dump that loses the time axis of the dataset
PickleTruncated(data) ==
    [exists |-> TRUE, ok |-> TRUE, body |-> [data EXCEPT !.time_points = 0]]

\* pickle.dump of the dataset
Pickle(data) == [exists |-> TRUE, ok |-> TRUE, body |-> data]

\* set(file_path, use_interpolation, data): the cache afterwards
CacheSet(c, bytes, use_interpolation, data, t, fail) ==
    LET cache_key == ComputeHash(bytes, use_interpolation, NoInt)
        written == [c EXCEPT !.pkl[cache_key] = Pickle(data)]
        metadata == [timestamp |-> t, last_access |-> t, access_count |-> 0,
                     cache_key |-> cache_key, size |-> data.gb]
        saved == [written EXCEPT
                     !.meta[cache_key] =
                         [exists |-> TRUE, ok |-> TRUE, body |-> metadata],
                     !.lru = Stamp(@, cache_key)]
    IN  IF fail = "hash" THEN c
        ELSE IF fail = "data_write"
        THEN [c EXCEPT !.pkl[cache_key] =
                 [exists |-> TRUE, ok |-> FALSE, body |-> NoData]]
        ELSE IF fail = "meta_write"
        THEN [written EXCEPT
                 !.meta[cache_key] =
                     [exists |-> TRUE, ok |-> FALSE, body |-> NoMeta],
                 !.lru = Unstamp(@, cache_key)]
        ELSE EnforceSizeLimit(saved)

\* clear(): every file of the directory is removed
CacheClear(c) == EmptyCache

(***************************************************************************)
(* Job records and the synchronized update (state.py)                      *)
(***************************************************************************)
\* the job ids handed out by start_mast
JobIds == {1}

\* holders of PROG_LOCK
Free == <<"free", 0>>
JobThread(j) == <<"job", j>>
ClientThread == <<"client", 0>>

Min(a, b) == IF a < b THEN a ELSE b
Max(a, b) == IF a > b THEN a ELSE b

\* a float percent as a number of units
Pct(x) == x * PctUnit

NoThroughput == <<0, 0>>

\* the keyword arguments of one _progress_set call, all None
NoArgs == [percent |-> NoInt, message |-> "", status |-> "", reset |-> FALSE,
           stage |-> "", processed_integrations |-> NoInt,
           total_integrations |-> NoInt, throughput |-> NoThroughput,
           eta_seconds |-> NoInt]

\* a slot of PROGRESS holding no record
NoRec == [gen |-> 0, status |-> "", percent |-> 0, eta_seconds |-> NoInt,
          message |-> "", started_at |-> 0, stage |-> "",
          processed_integrations |-> 0, total_integrations |-> NoInt,
          throughput |-> NoThroughput]

\* state.py:96-106, the record a reset creates; gen numbers the dict objects
FreshRec(gen, t) ==
    [gen |-> gen, status |-> "running", percent |-> 0, eta_seconds |-> NoInt,
     message |-> "Starting", started_at |-> t, stage |-> "queued",
     processed_integrations |-> 0, total_integrations |-> NoInt,
     throughput |-> NoThroughput]

\* the clamp with its test inverted
ClampWhenDone(p, status) ==
    IF status = "done" THEN Max(0, Min(Pct(99), p)) ELSE p

\* state.py:110-113
Clamp(p, status) ==
    IF status # "done" THEN Max(0, Min(Pct(99), p)) ELSE p

\* state.py:117-127; elapsed in hours, the result in seconds
Eta(p, eta_seconds, elapsed) ==
    IF eta_seconds # NoInt THEN eta_seconds
    ELSE IF 0 < p /\ p < Pct(100)
         THEN Max(0, (elapsed * 3600 * (Pct(100) - p)) \div p)
         ELSE NoInt

\* state.py:94-130: the record after the first half of the update
ProgressHead(rec, a, t) ==
    LET r0 == IF a.reset \/ rec.gen = 0 THEN FreshRec(rec.gen + 1, t) ELSE rec
        p == Clamp(a.percent, a.status)
        r1 == IF a.percent # NoInt
              THEN [r0 EXCEPT !.percent = p,
                              !.eta_seconds =
                                  Eta(p, a.eta_seconds, t - r0.started_at)]
              ELSE r0
    IN  IF a.message # "" THEN [r1 EXCEPT !.message = a.message] ELSE r1

\* state.py:131-140: the record after the second half of the update
ProgressTail(rec, a) ==
    [rec EXCEPT
        !.status = IF a.status # "" THEN a.status ELSE @,
        !.stage = IF a.stage # "" THEN a.stage ELSE @,
        !.processed_integrations =
            IF a.processed_integrations # NoInt
            THEN a.processed_integrations ELSE @,
        !.total_integrations =
            IF a.total_integrations # NoInt THEN a.total_integrations ELSE @,
        !.throughput =
            IF a.throughput # NoThroughput THEN a.throughput ELSE @]

(***************************************************************************)
(* Inputs of a job                                                         *)
(***************************************************************************)
\* the FITS/H5 files _extract_and_sort finds in an archive, in time order:
\* count is what the scan reads, loaded what the loader delivers
Unzip(bytes) ==
    IF bytes = <<1>> THEN <<>>
    ELSE IF bytes = <<2>> THEN <<[count |-> 1, loaded |-> 0]>>
    ELSE <<[count |-> 1, loaded |-> 2], [count |-> 0, loaded |-> 0],
           [count |-> 2, loaded |-> 1]>>

\* the values of num_integrations a client sends
NumIntegrationsChoices == {0, 2}

\* processing.py:297 and :386
N_WAVE == 1000
INTERP_CB_EVERY == 50

\* processing.py:196, files with count > 0
RECURSIVE ValidScans(_)
ValidScans(files) ==
    IF files = <<>> THEN <<>>
    ELSE IF Head(files).count > 0
         THEN <<Head(files)>> \o ValidScans(Tail(files))
         ELSE ValidScans(Tail(files))

\* processing.py:200
RECURSIVE SumCounts(_)
SumCounts(scans) ==
    IF scans = <<>> THEN 0 ELSE Head(scans).count + SumCounts(Tail(scans))

\* the integrations the loaders deliver for the files of an archive
RECURSIVE SumLoaded(_)
SumLoaded(scans) ==
    IF scans = <<>> THEN 0 ELSE Head(scans).loaded + SumLoaded(Tail(scans))

\* processing.py:219-223
PctForRead(processed, total_est_integrations) ==
    IF total_est_integrations = 0 THEN Pct(10)
    ELSE Pct(10) + (Pct(60 - 10) * Min(total_est_integrations, Max(0, processed)))
                      \div total_est_integrations

\* processing.py:306-310
PctForRegrid(done, total_integ) ==
    IF total_integ = 0 THEN Pct(60)
    ELSE Pct(60) + (Pct(88 - 60) * Min(total_integ, Max(0, done)))
                      \div total_integ

\* processing.py:388
PctForInterp(i, rows) == Pct(88) + (Pct(4) * i) \div Max(1, rows)

\* the arrays the pipeline returns, as cached and as plotted
DatasetOf(bytes, use_interpolation, n) ==
    [src |-> bytes, interp |-> use_interpolation, time_points |-> n,
     gb |-> GbPerPoint * n]

NoPayload == [present |-> FALSE, data |-> NoData]

NoJobArgs == [bytes |-> <<>>, use_interpolation |-> FALSE,
              num_integrations |-> 0, is_demo |-> FALSE]

\* content of static/demo_data/demo_jwst_timeseries.zip
DemoBytes == <<3>>

\* the files of the jobs outside the cache: the shared demo archive, and per
\* job the uploaded archive and the directory made by mkdtemp
NoFiles == [demo |-> TRUE,
            archive |-> [j \in JobIds |-> FALSE],
            temp_dir |-> [j \in JobIds |-> FALSE]]

NoLocals == [processed_count |-> 0, total_est |-> 0, fi |-> 1, ki |-> 0,
             n |-> 0, hit |-> FALSE, data |-> NoData, err |-> "",
             t_start |-> 0, ret_processed |-> NoInt, ret_total |-> NoInt,
             had_data |-> FALSE, had_sidecar |-> FALSE]

(***************************************************************************)
(* State                                                                   *)
(***************************************************************************)
VARIABLES
    now,        \* time.time(), in hours
    disk,       \* the archives and temporary directories of the jobs
    cache,      \* the files of the cache directory
    faults,     \* the number of cache operations a failure was injected in
    lastOp,     \* the last call of the cache API and what it returned
    stored,     \* per key, the dataset of the last completed set
    PROGRESS,   \* state.PROGRESS: job id -> the record now in the table
    OLD,        \* per job, the record object a reset replaced
    RESULTS,    \* state.RESULTS: job id -> payload
    lock,       \* holder of state.PROG_LOCK
    pc,         \* per job, the code its handler or worker thread runs next
    call,       \* per job, the _progress_set call it is inside
    ret,        \* per job, the copy its last _progress_set call returned
    args,       \* per job, zip content and form_args
    loc,        \* per job, the locals of _run_mast_job and the pipeline
    cpc,        \* the client's request handler: the code it runs next
    cloc,       \* the locals of that handler
    out,        \* the answer the last step sent to the client, if any
    plot,       \* a time series on its way to the surface plot
    filt,       \* the axes of a job on their way through the range filter
    grid,       \* a batch of integrations on its way through the regridding
    fitsLoad,   \* a FITS file in load_integrations_from_fits
    conc,       \* one cache entry and the jobs that work on it concurrently
    handler,    \* a request in start_mast or upload_mast
    export      \* the export state of state.py and a download reading it

cacheObs == <<lastOp, stored>>

\* the failure injected into a cache operation counts against MaxFaults
Inject(fail) ==
    /\ fail # "none" => faults < MaxFaults
    /\ faults' = IF fail # "none" THEN faults + 1 ELSE faults
jobVars == <<PROGRESS, OLD, RESULTS, lock, pc, call, ret, args, loc>>
clientVars == <<cpc, cloc>>
vars == <<now, disk, cache, faults, lastOp, stored, PROGRESS, OLD, RESULTS, lock, pc, call,
          ret, args, loc, cpc, cloc, out, plot, filt, grid, fitsLoad, conc,
          handler, export>>

NoOp == [op |-> "none", key |-> <<>>, faulty |-> FALSE, hit |-> FALSE,
         why |-> "", data |-> NoData, at |-> 0, pre |-> "none"]
NoStored == [valid |-> FALSE, kept |-> FALSE, data |-> NoData, ts |-> 0]
NoOut == [req |-> "none", job |-> 0, kind |-> "none", status |-> "",
          percent |-> 0, stage |-> "", message |-> "", payload |-> NoPayload,
          began |-> ""]
NoClientLocals == [job |-> 0, gen |-> 0, began |-> ""]

\* the state the job manager and the client start in
JobInit ==
    /\ disk = NoFiles
    /\ PROGRESS = [j \in JobIds |-> NoRec]
    /\ OLD = [j \in JobIds |-> NoRec]
    /\ RESULTS = [j \in JobIds |-> NoPayload]
    /\ lock = Free
    /\ pc = [j \in JobIds |-> "nojob"]
    /\ call = [j \in JobIds |-> [active |-> FALSE, a |-> NoArgs]]
    /\ ret = [j \in JobIds |-> NoRec]
    /\ args = [j \in JobIds |-> NoJobArgs]
    /\ loc = [j \in JobIds |-> NoLocals]
    /\ cpc = "idle"
    /\ cloc = NoClientLocals
    /\ out = NoOut

\* the requests for /download_plots of one run
MaxDownloads == 2

\* the clock
Tick ==
    /\ now + TickHours <= MaxTime
    /\ now' = now + TickHours
    /\ lastOp' = NoOp
    /\ UNCHANGED <<disk, cache, faults, stored, jobVars, clientVars>>

(***************************************************************************)
(* _progress_set (state.py:59-142), in two steps under PROG_LOCK           *)
(***************************************************************************)
\* lines 93-130: take the lock, create or fetch the record, write percent,
\* eta and message
Begin(j, a) ==
    /\ ~call[j].active
    /\ lock = Free
    /\ lock' = JobThread(j)
    /\ PROGRESS' = [PROGRESS EXCEPT ![j] = ProgressHead(@, a, now)]
    /\ OLD' = IF a.reset \/ PROGRESS[j].gen = 0
              THEN [OLD EXCEPT ![j] = PROGRESS[j]] ELSE OLD
    /\ call' = [call EXCEPT ![j] = [active |-> TRUE, a |-> a]]

\* lines 131-142: write status, stage and the counters, return a copy,
\* release the lock
ProgressEnd(j) ==
    /\ call[j].active
    /\ PROGRESS' = [PROGRESS EXCEPT ![j] = ProgressTail(@, call[j].a)]
    /\ ret' = [ret EXCEPT ![j] = PROGRESS'[j]]
    /\ call' = [call EXCEPT ![j] = [active |-> FALSE, a |-> NoArgs]]
    /\ lock' = Free
    /\ UNCHANGED <<now, disk, cache, faults, cacheObs, OLD, RESULTS, pc, args, loc,
                   clientVars>>

\* a call with percent, message and stage
Report(percent, message, stage) ==
    [NoArgs EXCEPT !.percent = percent, !.message = message, !.stage = stage]

\* a callback of the pipeline with the integration counters
ReportCounts(percent, message, stage, processed, total) ==
    [Report(percent, message, stage) EXCEPT
        !.processed_integrations = processed, !.total_integrations = total]

\* jobs.py:62 and :358
CallQueued == [Report(Pct(1), "Queued", "queued") EXCEPT !.reset = TRUE]

\* jobs.py:284
CallDone == [Report(Pct(100), "Done", "done") EXCEPT !.status = "done"]

\* the handler's call without the message
CallErrorNoMessage(text) ==
    [NoArgs EXCEPT !.status = "error", !.stage = "error"]

\* jobs.py:288
CallError(text) ==
    [NoArgs EXCEPT !.message = text, !.status = "error", !.stage = "error"]

\* jobs.py:286-288: an exception of the try block reaches the handler
Raise(j, text) ==
    /\ Begin(j, CallError(text))
    /\ loc' = [loc EXCEPT ![j].err = text]
    /\ pc' = [pc EXCEPT ![j] = "finally"]

(***************************************************************************)
(* start_mast and _run_mast_job (routes/jobs.py), with the callbacks of    *)
(* process_mast_files_with_gaps (processing.py).  Each action runs the     *)
(* code up to the next _progress_set call and the first half of that call. *)
(***************************************************************************)
\* jobs.py:158
Sampling(num_integrations, data) ==
    num_integrations # 0 /\ num_integrations > 0
        /\ num_integrations < data.time_points

\* jobs.py:356-372: the handler creates the record and spawns the worker
StartMast(j) ==
    /\ pc[j] = "nojob"
    /\ \E b \in ArchiveBytes, f \in BOOLEAN, ni \in NumIntegrationsChoices,
          use_demo \in BOOLEAN :
          /\ use_demo => disk.demo /\ b = DemoBytes
          /\ args' = [args EXCEPT ![j] =
                         [bytes |-> b, use_interpolation |-> f,
                          num_integrations |-> ni, is_demo |-> use_demo]]
          /\ disk' = IF use_demo THEN disk
                     ELSE [disk EXCEPT !.archive[j] = TRUE]
    /\ Begin(j, CallQueued)
    /\ pc' = [pc EXCEPT ![j] = "spawn"]
    /\ UNCHANGED <<now, cache, faults, cacheObs, RESULTS, ret, loc, clientVars>>

\* jobs.py:62: the worker thread starts and resets the record
WorkerBegin(j) ==
    /\ pc[j] = "spawn"
    /\ Begin(j, CallQueued)
    /\ pc' = [pc EXCEPT ![j] = "mkdtemp"]
    /\ UNCHANGED <<now, disk, cache, faults, cacheObs, RESULTS, ret, args, loc, clientVars>>

\* jobs.py:63-71: mkdtemp stands before the try block; when it raises the
\* thread ends
Mkdtemp(j) ==
    /\ pc[j] = "mkdtemp"
    /\ ~call[j].active
    /\ \/ /\ pc' = [pc EXCEPT ![j] = "crashed"]
          /\ UNCHANGED <<disk, PROGRESS, OLD, lock, call>>
       \/ /\ disk' = [disk EXCEPT !.temp_dir[j] = TRUE]
          /\ Begin(j, Report(Pct(2), "Checking cache", "scan"))
          /\ pc' = [pc EXCEPT ![j] = "cache_get"]
    /\ UNCHANGED <<now, cache, faults, cacheObs, RESULTS, ret, args, loc, clientVars>>

\* jobs.py:81-109; had_data and had_sidecar note the files the key had in
\* the directory when the job looked it up
CacheLookup(j) ==
    /\ pc[j] = "cache_get"
    /\ \E fail \in GetFails :
         LET k == ComputeHash(args[j].bytes, args[j].use_interpolation, NoInt)
             r == CacheGet(cache, args[j].bytes, args[j].use_interpolation,
                           now, fail)
             seen == [loc EXCEPT ![j].had_data = cache.pkl[k].exists,
                                 ![j].had_sidecar = cache.meta[k].exists]
         IN  /\ Inject(fail)
             /\ cache' = r.cache
             /\ IF r.hit
                THEN /\ loc' = [seen EXCEPT ![j].hit = TRUE,
                                            ![j].data = r.data]
                     /\ Begin(j, Report(Pct(60), "Loaded from cache", "read"))
                     /\ pc' = [pc EXCEPT ![j] = "sample_check"]
                ELSE /\ loc' = seen
                     /\ Begin(j, Report(Pct(3), "Extracting archive", "scan"))
                     /\ pc' = [pc EXCEPT ![j] = "extract"]
    /\ UNCHANGED <<now, disk, cacheObs, RESULTS, ret, args, clientVars>>

\* jobs.py:110-113 and processing.py:169-171
Extract(j) ==
    /\ pc[j] = "extract"
    /\ \/ Raise(j, "File is not a zip file")
       \/ /\ Unzip(args[j].bytes) = <<>>
          /\ Raise(j, "No valid FITS/H5 files found in archive.")
       \/ /\ Unzip(args[j].bytes) # <<>>
          /\ Begin(j, Report(Pct(2), "Scanning files", "scan"))
          /\ pc' = [pc EXCEPT ![j] = "scan"]
          /\ loc' = loc
    /\ UNCHANGED <<now, disk, cache, faults, cacheObs, RESULTS, ret, args, clientVars>>

\* processing.py:173-211
Scan(j) ==
    /\ pc[j] = "scan"
    /\ LET total == SumCounts(ValidScans(Unzip(args[j].bytes)))
       IN  /\ loc' = [loc EXCEPT ![j].total_est = total, ![j].fi = 1,
                                 ![j].ki = 0]
           /\ Begin(j, ReportCounts(Pct(10), "Found", "scan", 0, total))
    /\ pc' = [pc EXCEPT ![j] = "read"]
    /\ UNCHANGED <<now, disk, cache, faults, cacheObs, RESULTS, ret, args, clientVars>>

\* the loaded integrations are never found missing
NoIntegrationsUnchecked(n) == FALSE

\* processing.py:286
NoIntegrations(n) == n = 0

\* processing.py:225-317: one integration, the end of one file, or the end
\* of the read loop
ReadStep(j) ==
    /\ pc[j] = "read"
    /\ LET scans == ValidScans(Unzip(args[j].bytes))
           l == loc[j]
       IN  IF l.fi > Len(scans)
           THEN IF NoIntegrations(l.n)
                THEN Raise(j, "No valid integrations found in files")
                ELSE /\ Begin(j, ReportCounts(Pct(60), "Regridding", "regrid",
                                  l.processed_count, l.total_est))
                     /\ loc' = [loc EXCEPT ![j].ki = 0, ![j].t_start = now]
                     /\ pc' = [pc EXCEPT ![j] = "regrid"]
           ELSE \/ /\ l.ki = 0
                   /\ Raise(j, "read failed")
                \/ /\ l.ki < scans[l.fi].loaded
                   /\ Begin(j, ReportCounts(
                          PctForRead(l.processed_count + 1, l.total_est),
                          "Reading", "read", l.processed_count + 1,
                          l.total_est))
                   /\ loc' = [loc EXCEPT ![j].ki = @ + 1,
                                         ![j].processed_count = @ + 1]
                   /\ pc' = pc
                \/ /\ l.ki >= scans[l.fi].loaded
                   /\ Begin(j, ReportCounts(
                          PctForRead(l.processed_count, l.total_est),
                          "Loaded", "read", l.processed_count, l.total_est))
                   /\ loc' = [loc EXCEPT ![j].n = @ + scans[l.fi].loaded,
                                         ![j].fi = @ + 1, ![j].ki = 0]
                   /\ pc' = pc
    /\ UNCHANGED <<now, disk, cache, faults, cacheObs, RESULTS, ret, args, clientVars>>

\* the callback reporting the stage of the loop before it
CallNormaliseAsRegrid(l) ==
    ReportCounts(Pct(92), "Computing variability", "regrid",
                 l.processed_count + l.n, l.total_est)

\* processing.py:398-403: the callback that enters finalize
CallNormalise(l) ==
    ReportCounts(Pct(92), "Computing variability", "finalize",
                 l.processed_count + l.n, l.total_est)

\* processing.py:321-368 and :398-403: one integration regridded, or the
\* end of the loop
RegridStep(j) ==
    /\ pc[j] = "regrid"
    /\ LET l == loc[j]
           done_total == l.processed_count + (l.ki + 1)
           elapsed == now - l.t_start
           tp == IF elapsed > 0 THEN <<done_total, elapsed * 3600>>
                 ELSE NoThroughput
       IN  IF l.ki < l.n
           THEN \/ /\ l.ki = 0
                   /\ Raise(j, "regrid failed")
                \/ /\ Begin(j, [ReportCounts(PctForRegrid(l.ki + 1, l.n),
                                    "Regridding", "regrid", done_total,
                                    l.total_est) EXCEPT !.throughput = tp])
                   /\ loc' = [loc EXCEPT ![j].ki = @ + 1]
                   /\ pc' = pc
           ELSE IF args[j].use_interpolation
                THEN /\ Begin(j, Report(Pct(88), "Interpolating", "interpolate"))
                     /\ loc' = [loc EXCEPT ![j].ki = 0]
                     /\ pc' = [pc EXCEPT ![j] = "interp"]
                ELSE /\ Begin(j, CallNormalise(l))
                     /\ loc' = loc
                     /\ pc' = [pc EXCEPT ![j] = "normalize"]
    /\ UNCHANGED <<now, disk, cache, faults, cacheObs, RESULTS, ret, args, clientVars>>

\* processing.py:374-403: the rows up to the next callback, or the end of
\* the loop
InterpStep(j) ==
    /\ pc[j] = "interp"
    /\ LET l == loc[j]
       IN  IF l.ki < N_WAVE
           THEN \/ /\ l.ki = 0
                   /\ Raise(j, "interpolate failed")
                \/ /\ Begin(j, Report(PctForInterp(l.ki, N_WAVE),
                                      "Interpolating", "interpolate"))
                   /\ loc' = [loc EXCEPT ![j].ki = @ + INTERP_CB_EVERY]
                   /\ pc' = pc
           ELSE /\ Begin(j, CallNormalise(l))
                /\ loc' = [loc EXCEPT ![j].ki = 0]
                /\ pc' = [pc EXCEPT ![j] = "normalize"]
    /\ UNCHANGED <<now, disk, cache, faults, cacheObs, RESULTS, ret, args, clientVars>>

\* processing.py:405-426 and jobs.py:130-137
Normalize(j) ==
    /\ pc[j] = "normalize"
    /\ \/ Raise(j, "finalize failed")
       \/ /\ Begin(j, Report(Pct(93), "Caching processed data", "finalize"))
          /\ loc' = [loc EXCEPT ![j].data =
                 DatasetOf(args[j].bytes, args[j].use_interpolation, loc[j].n)]
          /\ pc' = [pc EXCEPT ![j] = "cache_set"]
    /\ UNCHANGED <<now, disk, cache, faults, cacheObs, RESULTS, ret, args, clientVars>>

\* jobs.py:151-180: the call that follows the dataset, sampled or not
AfterData(j) ==
    IF Sampling(args[j].num_integrations, loc[j].data)
    THEN /\ Begin(j, Report(Pct(94), "Sampling", "finalize"))
         /\ pc' = [pc EXCEPT ![j] = "sample"]
    ELSE /\ Begin(j, Report(Pct(95), "Applying filters", "finalize"))
         /\ pc' = [pc EXCEPT ![j] = "filter"]

\* jobs.py:139-163
CacheStore(j) ==
    /\ pc[j] = "cache_set"
    /\ \E fail \in SetFails :
          /\ Inject(fail)
          /\ cache' = CacheSet(cache, args[j].bytes,
                               args[j].use_interpolation, loc[j].data, now,
                               fail)
    /\ AfterData(j)
    /\ UNCHANGED <<now, disk, cacheObs, RESULTS, ret, args, loc, clientVars>>

\* jobs.py:94-163 after a cache hit: the cached arrays are copied, and a
\* cached dict that lacks one of them raises KeyError
SampleCheck(j) ==
    /\ pc[j] = "sample_check"
    /\ \/ Raise(j, "'error_raw_2d'")
       \/ AfterData(j) /\ loc' = loc
    /\ UNCHANGED <<now, disk, cache, faults, cacheObs, RESULTS, ret, args, clientVars>>

\* jobs.py:164-180
Sample(j) ==
    /\ pc[j] = "sample"
    /\ loc' = [loc EXCEPT ![j].data.time_points = args[j].num_integrations]
    /\ Begin(j, Report(Pct(95), "Applying filters", "finalize"))
    /\ pc' = [pc EXCEPT ![j] = "filter"]
    /\ UNCHANGED <<now, disk, cache, faults, cacheObs, RESULTS, ret, args, clientVars>>

\* jobs.py:182-229: the filters, then the first _progress_set(job_id) that
\* reads the counters back
Filter(j) ==
    /\ pc[j] = "filter"
    /\ \/ Raise(j, "filter failed")
       \/ /\ Begin(j, NoArgs)
          /\ loc' = loc
          /\ pc' = [pc EXCEPT ![j] = "arg1"]
    /\ UNCHANGED <<now, disk, cache, faults, cacheObs, RESULTS, ret, args, clientVars>>

\* jobs.py:229-230: the second read-back
ReadBack(j) ==
    /\ pc[j] = "arg1"
    /\ ~call[j].active
    /\ loc' = [loc EXCEPT ![j].ret_processed = ret[j].processed_integrations]
    /\ Begin(j, NoArgs)
    /\ pc' = [pc EXCEPT ![j] = "arg2"]
    /\ UNCHANGED <<now, disk, cache, faults, cacheObs, RESULTS, ret, args, clientVars>>

\* jobs.py:227-231
Rendering(j) ==
    /\ pc[j] = "arg2"
    /\ ~call[j].active
    /\ loc' = [loc EXCEPT ![j].ret_total = ret[j].total_integrations]
    /\ Begin(j, ReportCounts(Pct(96), "Rendering plots", "finalize",
                             loc[j].ret_processed,
                             ret[j].total_integrations))
    /\ pc' = [pc EXCEPT ![j] = "plot"]
    /\ UNCHANGED <<now, disk, cache, faults, cacheObs, RESULTS, ret, args, clientVars>>

\* jobs.py:233-278
Plot(j) ==
    /\ pc[j] = "plot"
    /\ ~call[j].active
    /\ \/ /\ Raise(j, "plot failed")
          /\ UNCHANGED RESULTS
       \/ /\ pc' = [pc EXCEPT ![j] = "store"]
          /\ UNCHANGED <<PROGRESS, OLD, RESULTS, lock, call, loc>>
    /\ UNCHANGED <<now, disk, cache, faults, cacheObs, ret, args, clientVars>>

\* jobs.py:280-281
StoreResults(j) ==
    /\ pc[j] = "store"
    /\ lock = Free
    /\ RESULTS' = [RESULTS EXCEPT ![j] = [present |-> TRUE, data |-> loc[j].data]]
    /\ pc' = [pc EXCEPT ![j] = "finish"]
    /\ UNCHANGED <<now, disk, cache, faults, cacheObs, PROGRESS, OLD, lock, call, ret, args,
                   loc, clientVars>>

\* jobs.py:283-284
Finish(j) ==
    /\ pc[j] = "finish"
    /\ Begin(j, CallDone)
    /\ pc' = [pc EXCEPT ![j] = "finally"]
    /\ UNCHANGED <<now, disk, cache, faults, cacheObs, RESULTS, ret, args, loc, clientVars>>

\* jobs.py:289-298: os.remove(zip_path), zip_path being the upload or the
\* demo archive
RemoveZip(d, j, is_demo) ==
    IF is_demo THEN [d EXCEPT !.demo = FALSE]
    ELSE [d EXCEPT !.archive[j] = FALSE]

\* a finally block that also drops the payload of the job
CleanupDroppingPayload(j) ==
    /\ pc[j] = "finally"
    /\ ~call[j].active
    /\ LET gone == [disk EXCEPT !.temp_dir[j] = FALSE]
       IN  disk' = IF ~args[j].is_demo
                   THEN RemoveZip(gone, j, args[j].is_demo)
                   ELSE gone
    /\ RESULTS' = [RESULTS EXCEPT ![j] = NoPayload]
    /\ pc' = [pc EXCEPT ![j] = "exited"]
    /\ UNCHANGED <<now, cache, faults, cacheObs, PROGRESS, OLD, lock, call,
                   ret, args, loc, clientVars>>

\* jobs.py:289-298
Cleanup(j) ==
    /\ pc[j] = "finally"
    /\ ~call[j].active
    /\ LET gone == [disk EXCEPT !.temp_dir[j] = FALSE]
       IN  disk' = IF ~args[j].is_demo
                   THEN RemoveZip(gone, j, args[j].is_demo)
                   ELSE gone
    /\ pc' = [pc EXCEPT ![j] = "exited"]
    /\ UNCHANGED <<now, cache, faults, cacheObs, PROGRESS, OLD, RESULTS, lock, call,
                   ret, args, loc, clientVars>>

(***************************************************************************)
(* get_progress and get_results (routes/jobs.py:379-403).  out is the      *)
(* answer a step sends; a step that sends none leaves it empty.            *)
(***************************************************************************)
\* the record object a handler holds: the one in the table, or the one a
\* reset has replaced since
Held(j, gen) == IF PROGRESS[j].gen = gen THEN PROGRESS[j] ELSE OLD[j]

Silent == out' = NoOut

\* an unknown id answered with the record a reset would create
UnknownJobAsDefault(req, j) ==
    [NoOut EXCEPT !.req = req, !.job = j, !.kind = "record",
                  !.status = "running", !.stage = "queued",
                  !.message = "Starting"]

\* jobs.py:384 and :395
UnknownJob(req, j) == [NoOut EXCEPT !.req = req, !.job = j, !.kind = "unknown job"]

\* jobs.py:386-387, dict(PROGRESS[job_id]) as JSON
Snapshot(j, rec) ==
    [NoOut EXCEPT !.req = "poll", !.job = j, !.kind = "record",
                  !.status = rec.status, !.percent = rec.percent,
                  !.stage = rec.stage, !.message = rec.message]

\* jobs.py:382-384
PollLookup(j) ==
    /\ cpc = "idle"
    /\ IF PROGRESS[j].gen = 0
       THEN /\ out' = UnknownJob("poll", j)
            /\ UNCHANGED <<cpc, cloc>>
       ELSE /\ cpc' = "poll_copy"
            /\ cloc' = [NoClientLocals EXCEPT !.job = j]
            /\ Silent
    /\ UNCHANGED <<now, disk, cache, faults, cacheObs, jobVars>>

\* jobs.py:385-387
PollCopy(j) ==
    /\ cpc = "poll_copy"
    /\ cloc.job = j
    /\ lock = Free
    /\ out' = Snapshot(j, PROGRESS[j])
    /\ cpc' = "idle"
    /\ cloc' = NoClientLocals
    /\ UNCHANGED <<now, disk, cache, faults, cacheObs, jobVars>>

\* the answers of get_results
Answer(j, kind, message, payload) ==
    /\ out' = [NoOut EXCEPT !.req = "fetch", !.job = j, !.kind = kind,
                            !.message = message, !.payload = payload,
                            !.began = cloc.began]
    /\ cpc' = "idle"
    /\ cloc' = NoClientLocals

\* jobs.py:393-395; began notes the status the job had when the call began
FetchLookup(j) ==
    /\ cpc = "idle"
    /\ IF PROGRESS[j].gen = 0
       THEN /\ out' = UnknownJob("fetch", j)
            /\ UNCHANGED <<cpc, cloc>>
       ELSE /\ cpc' = "fetch_status"
            /\ cloc' = [job |-> j, gen |-> PROGRESS[j].gen,
                        began |-> PROGRESS[j].status]
            /\ Silent
    /\ UNCHANGED <<now, disk, cache, faults, cacheObs, jobVars>>

\* jobs.py:396
FetchStatus(j) ==
    /\ cpc = "fetch_status"
    /\ cloc.job = j
    /\ cpc' = IF Held(j, cloc.gen).status = "error"
              THEN "fetch_message" ELSE "fetch_ready"
    /\ Silent
    /\ UNCHANGED <<now, disk, cache, faults, cacheObs, jobVars, cloc>>

\* jobs.py:397
FetchMessage(j) ==
    /\ cpc = "fetch_message"
    /\ cloc.job = j
    /\ Answer(j, "error", Held(j, cloc.gen).message, NoPayload)
    /\ UNCHANGED <<now, disk, cache, faults, cacheObs, jobVars>>

\* get_results without the test of the status
FetchReadyUnchecked(j) ==
    /\ cpc = "fetch_ready"
    /\ cloc.job = j
    /\ cpc' = "fetch_payload"
    /\ Silent
    /\ UNCHANGED cloc
    /\ UNCHANGED <<now, disk, cache, faults, cacheObs, jobVars>>

\* jobs.py:398-399
FetchReady(j) ==
    /\ cpc = "fetch_ready"
    /\ cloc.job = j
    /\ IF Held(j, cloc.gen).status # "done"
       THEN Answer(j, "not ready", "", NoPayload)
       ELSE /\ cpc' = "fetch_payload"
            /\ Silent
            /\ UNCHANGED cloc
    /\ UNCHANGED <<now, disk, cache, faults, cacheObs, jobVars>>

\* jobs.py:400-403
FetchPayload(j) ==
    /\ cpc = "fetch_payload"
    /\ cloc.job = j
    /\ IF ~RESULTS[j].present
       THEN Answer(j, "no payload", "", NoPayload)
       ELSE Answer(j, "payload", "", RESULTS[j])
    /\ UNCHANGED <<now, disk, cache, faults, cacheObs, jobVars>>

(***************************************************************************)
(* The job manager: one job, its worker, one polling client                *)
(***************************************************************************)
\* the cache directory outlives the process: it is empty, or holds what a
\* job of an earlier run stored at hour 0
EarlierRunCaches ==
    {EmptyCache} \cup
    {CacheSet(EmptyCache, <<3>>, f, DatasetOf(<<3>>, f, 3), 0, "none") :
        f \in BOOLEAN}

(***************************************************************************)
(* Range filter (data_io.py, routes/jobs.py).  A range is the empty tuple  *)
(* when the form named none, else <<min, max>> with NoInt for a bound left *)
(* empty.                                                                  *)
(***************************************************************************)
RECURSIVE MinOf(_)
MinOf(a) ==
    IF Len(a) = 1 THEN a[1] ELSE Min(a[1], MinOf(Tail(a)))

RECURSIVE MaxOf(_)
MaxOf(a) ==
    IF Len(a) = 1 THEN a[1] ELSE Max(a[1], MaxOf(Tail(a)))

\* data_io.py:34-35 and :52-53, the test that a range was given
RangeGiven(range) ==
    range # <<>> /\ (range[1] # NoInt \/ range[2] # NoInt)

\* data_io.py:36-41 and :54-59, the bounds after clamping to the data
ClampedMin(axis, range) ==
    Max(IF range[1] # NoInt THEN range[1] ELSE MinOf(axis), MinOf(axis))

ClampedMax(axis, range) ==
    Min(IF range[2] # NoInt THEN range[2] ELSE MaxOf(axis), MaxOf(axis))

\* a range that is given and, clamped, has min >= max
RangeInvalid(axis, range) ==
    RangeGiven(range) /\ ClampedMin(axis, range) >= ClampedMax(axis, range)

\* a range that is given and, clamped, has min < max
RangeAccepted(axis, range) ==
    RangeGiven(range) /\ ClampedMin(axis, range) < ClampedMax(axis, range)

\* data_io.py:48 and :66, the samples the mask keeps
Masked(axis, lo, hi) == SelectSeq(axis, LAMBDA v : v >= lo /\ v <= hi)

\* data_io.py:33-50 for the wavelength axis, :51-68 for the time axis:
\* the samples kept, the entry of range_info and the warning logged
AxisFilter(axis, range, label) ==
    IF ~RangeGiven(range)
    THEN [kept |-> axis, info |-> <<>>, warned |-> <<>>]
    ELSE LET lo == ClampedMin(axis, range)
             hi == ClampedMax(axis, range)
         IN  IF lo >= hi
             THEN [kept |-> axis, info |-> <<>>,
                   warned |-> <<[axis |-> label, min |-> lo, max |-> hi]>>]
             ELSE [kept |-> Masked(axis, lo, hi),
                   info |-> <<[axis |-> label, min |-> lo, max |-> hi]>>,
                   warned |-> <<>>]

\* data_io.py:24-84; the flux matrix has the shape of the two axes
apply_data_ranges(wavelength, time, wavelength_range, time_range) ==
    LET w == AxisFilter(wavelength, wavelength_range, "Wavelength")
        t == AxisFilter(time, time_range, "Time")
    IN  [wavelength |-> w.kept, time |-> t.kept,
         range_info |-> w.info \o t.info,
         warnings |-> w.warned \o t.warned]

\* no job in the filter stage
NoFilt == [pc |-> "idle", wavelength_1d |-> <<>>, time_1d |-> <<>>,
           wavelength_range |-> <<>>, time_range |-> <<>>,
           wavelength_1d_norm |-> <<>>, time_1d_norm |-> <<>>,
           user_ranges |-> <<>>, log |-> <<>>, status |-> "running",
           message |-> ""]

(***************************************************************************)
(* Visits of a time series (processing.py, plotting.py)                    *)
(***************************************************************************)
\* no time series under way
NoPlot == [pc |-> "idle", caller |-> "none", times_hours |-> <<>>,
           use_interpolation |-> FALSE, time |-> <<>>, scale |-> 1,
           gap_threshold |-> 0, visits |-> <<>>]

\* a gap that reaches the threshold taken for one that exceeds it
GapReaches(time_gap, gap_threshold) ==
    time_gap # NaN /\ time_gap >= gap_threshold

\* processing.py:138, a comparison with nan is false
GapExceeds(time_gap, gap_threshold) ==
    time_gap # NaN /\ time_gap > gap_threshold

\* processing.py:137, float subtraction
Minus(a, b) == IF a = NaN \/ b = NaN THEN NaN ELSE a - b

\* processing.py:136-141, the loop from index i on and the final append
RECURSIVE VisitsLoop(_, _, _, _, _)
VisitsLoop(times_hours, gap_threshold, i, start_idx, visits) ==
    IF i >= Len(times_hours)
    THEN Append(visits, <<start_idx, Len(times_hours)>>)
    ELSE LET time_gap == Minus(times_hours[i + 1], times_hours[i])
         IN  IF GapExceeds(time_gap, gap_threshold)
             THEN VisitsLoop(times_hours, gap_threshold, i + 1, i,
                             Append(visits, <<start_idx, i>>))
             ELSE VisitsLoop(times_hours, gap_threshold, i + 1, start_idx,
                             visits)

\* processing.py:126-150; indices count from 0 as in the source
identify_visits(times_hours, gap_threshold) ==
    IF Len(times_hours) = 0 THEN <<>>
    ELSE IF Len(times_hours) = 1 THEN <<<<0, 1>>>>
    ELSE VisitsLoop(times_hours, gap_threshold, 1, 0, <<>>)

\* the grid of processing.py:370 is in units of 1/GridScale of a half-hour
GridScale(times_hours) == Max(1, Len(times_hours) - 1)

\* processing.py:370, np.linspace(min, max, len): start + k * step
Linspace(times_hours) ==
    [k \in 1..Len(times_hours) |->
        MinOf(times_hours) * GridScale(times_hours)
          + (MaxOf(times_hours) - MinOf(times_hours)) * (k - 1)]

\* plotting.py:145-149
SurfaceVisits(x, gap_threshold, use_interpolation) ==
    IF use_interpolation THEN <<<<0, Len(x)>>>>
    ELSE identify_visits(x, gap_threshold)

(***************************************************************************)
(* Regridding (processing.py:292-405).  A matrix is its shape <<rows,      *)
(* columns>>, a regridded spectrum its length.                             *)
(***************************************************************************)
\* no batch under way
NoGrid == [pc |-> "idle", all_integrations |-> <<>>,
           use_interpolation |-> FALSE, common_wl |-> <<>>,
           flux_raw_list |-> <<>>, error_raw_list |-> <<>>, times |-> <<>>,
           times_hours |-> <<>>, flux_raw_2d |-> <<0, 0>>,
           error_raw_2d |-> <<0, 0>>, flux_norm_2d |-> <<0, 0>>]

\* processing.py:295, the largest of the smallest wavelengths
MinWl(all_integrations) ==
    MaxOf([k \in 1..Len(all_integrations) |-> all_integrations[k].wl_min])

\* processing.py:296, the smallest of the largest wavelengths
MaxWl(all_integrations) ==
    MinOf([k \in 1..Len(all_integrations) |-> all_integrations[k].wl_max])

\* processing.py:298, np.linspace(min_wl, max_wl, n_wave) in units of
\* 1/(n_wave - 1): start + k * step
CommonWl(min_wl, max_wl, n_wave) ==
    [k \in 1..n_wave |-> min_wl * (n_wave - 1) + (max_wl - min_wl) * (k - 1)]

\* processing.py:359-360, the shape of np.array(list).T
Transposed(list) == <<list[1], Len(list)>>

(***************************************************************************)
(* load_integrations_from_fits (data_io.py:140-383).  A file is the list   *)
(* of its EXTRACT1D extensions, each [ver, rows, time_cols], and the       *)
(* number of entries of INT_TIMES.                                         *)
(***************************************************************************)
\* no file under way
NoLoad == [pc |-> "idle", hdus |-> <<>>, nint |-> 0,
           has_table_format |-> FALSE, has_time_in_table |-> FALSE,
           has_individual_extensions |-> FALSE, branch |-> "none",
           integrations |-> <<>>, returned |-> "nothing"]

\* hdul['EXTRACT1D', idx]: the extensions of that name with EXTVER idx,
\* an extension without the keyword having EXTVER 1
ExtVer(hdus, idx) == {k \in 1..Len(hdus) : hdus[k].ver = idx}

\* data_io.py:199 and :258-267, the handler the loader dispatches to
Dispatch(has_table_format, has_time_in_table, has_individual_extensions) ==
    IF has_table_format /\ has_time_in_table THEN "embedded"
    ELSE IF has_individual_extensions THEN "individual"
    ELSE "int_times"

\* data_io.py:211-255, one integration per row, its time from the row
EmbeddedRows(hdus) ==
    [idx \in 1..hdus[1].rows |->
        [from |-> "row", index |-> idx, time |-> "table"]]

\* data_io.py:273-310, one integration per entry of INT_TIMES whose
\* extension exists; a KeyError skips the entry
IndividualExtensions(hdus, nint) ==
    LET Found(n) == {idx \in 1..n : ExtVer(hdus, idx) # {}}
        F[n \in 0..nint] ==
            IF n = 0 THEN <<>>
            ELSE IF n \in Found(nint)
                 THEN Append(F[n - 1], [from |-> "extension", index |-> n,
                                        time |-> "INT_TIMES"])
                 ELSE F[n - 1]
    IN  F[nint]

\* data_io.py:313-366, one integration per entry of INT_TIMES that has a
\* row in the table
TableRows(hdus, nint) ==
    [idx \in 1..Min(nint, hdus[1].rows) |->
        [from |-> "row", index |-> idx, time |-> "INT_TIMES"]]

(***************************************************************************)
(* Jobs working on one cache entry at the same time (cache_manager.py has  *)
(* no lock).  The entry is its data file, present or not, and its sidecar. *)
(***************************************************************************)
\* the worker threads of two jobs submitted with the same archive
Threads == {1, 2}

\* a thread outside the cache, its locals empty; why tells how its last
\* call ended
NoThread == [pc |-> "idle", metadata |-> NoMeta, listed |-> {},
             why |-> "none"]

\* an empty cache directory and no call under way; hits, set_at and hit_at
\* record the calls completed: the hits since the entry was written, the
\* time it was written and the time of the last hit
NoConc == [pkl |-> FALSE, meta |-> [exists |-> FALSE, body |-> NoMeta],
           th |-> [t \in Threads |-> NoThread],
           calls |-> 0, hits |-> 0, set_at |-> 0, hit_at |-> 0]

\* the entry an earlier set wrote at time 0
StoredConc ==
    [NoConc EXCEPT !.pkl = TRUE, !.meta = [exists |-> TRUE, body |-> NoMeta]]

(***************************************************************************)
(* The request handlers start_mast (routes/jobs.py) and upload_mast        *)
(* (routes/upload.py) and the files they create                            *)
(***************************************************************************)
\* an upload that is no zip archive
NotAZip == <<0>>

\* the texts a form field holding a number can carry
NumberTexts == {"", "2", "abc"}

\* int(text or 0) and float(text) raise ValueError on these
Unparsable(text) == text \notin {"", "0", "1", "2"}

\* no request under way: tmp_zip and temp_dir tell whether the saved
\* archive and the extraction directory exist
NoHandler == [pc |-> "idle", route |-> "none", bytes |-> <<>>,
              use_demo |-> FALSE, num_integrations |-> "",
              time_range_min |-> "", tmp_zip |-> FALSE, temp_dir |-> FALSE,
              thread |-> FALSE, code |-> 0, error |-> ""]

\* the handler answers and ends
Respond(h, code, error) ==
    [h EXCEPT !.pc = "answered", !.code = code, !.error = error]

\* processing.py:283-284 raises when no file of the archive yields an
\* integration
NoIntegrationsLoaded(bytes) == SumLoaded(ValidScans(Unzip(bytes))) = 0

(***************************************************************************)
(* The export state of state.py, written by the jobs and read by           *)
(* download_plots (routes/upload.py)                                       *)
(***************************************************************************)
\* the jobs that finish, and no job for an attribute still None
ExportJobs == {1, 2}
NoJob == 0

\* state.py:43-47, in the order jobs.py:266-270 assigns and
\* upload.py:42-46 reads them
Attributes == <<"last_surface_plot_html", "last_heatmap_plot_html",
                "last_surface_fig_json", "last_heatmap_fig_json",
                "last_custom_bands">>

\* state.py:43-47: every attribute holds the plot of the job that wrote it
NoAttributes == [a \in 1..Len(Attributes) |-> NoJob]

\* no job has finished and no download was asked for: written counts the
\* assignments a job has made, at the attribute the download reads next,
\* got what it has read
NoExport == [state |-> NoAttributes,
             written |-> [j \in ExportJobs |-> 0],
             at |-> 0, got |-> NoAttributes, downloads |-> 0,
             code |-> 0, zip |-> NoAttributes]

\* the variables of the pipeline stages that are modelled on their own
sideVars == <<plot, filt, grid, fitsLoad, conc, handler, export>>

SideInit ==
    /\ plot = NoPlot
    /\ filt = NoFilt
    /\ grid = NoGrid
    /\ fitsLoad = NoLoad
    /\ conc = NoConc
    /\ handler = NoHandler
    /\ export = NoExport

Init ==
    /\ now = 0
    /\ cache \in EarlierRunCaches
    /\ faults = 0
    /\ lastOp = NoOp
    /\ stored = [k \in CacheKeys |-> NoStored]
    /\ JobInit
    /\ SideInit

Worker(j) ==
    \/ WorkerBegin(j) \/ Mkdtemp(j) \/ CacheLookup(j) \/ Extract(j) \/ Scan(j)
    \/ ReadStep(j) \/ RegridStep(j) \/ InterpStep(j) \/ Normalize(j)
    \/ CacheStore(j) \/ SampleCheck(j) \/ Sample(j) \/ Filter(j)
    \/ ReadBack(j) \/ Rendering(j) \/ Plot(j) \/ StoreResults(j)
    \/ Finish(j) \/ Cleanup(j) \/ ProgressEnd(j)

Client(j) ==
    \/ PollLookup(j) \/ PollCopy(j) \/ FetchLookup(j) \/ FetchStatus(j)
    \/ FetchMessage(j) \/ FetchReady(j) \/ FetchPayload(j)

Next ==
    \/ Tick /\ Silent /\ UNCHANGED sideVars
    \/ \E j \in JobIds :
          \/ StartMast(j) /\ Silent /\ UNCHANGED sideVars
          \/ Worker(j) /\ Silent /\ UNCHANGED sideVars
          \/ Client(j) /\ UNCHANGED sideVars

Spec == Init /\ [][Next]_vars

(***************************************************************************)
(* The cache on its own: calls of get, set and clear, and the clock        *)
(***************************************************************************)
\* the archives and dataset lengths of the calls
CacheCallBytes == {<<3>>}
CacheCallPoints == {3, 5}

\* what a get finds, told from the files before the call
Found(c, k, t) ==
    IF ~c.pkl[k].exists \/ ~c.meta[k].exists THEN "absent"
    ELSE IF ~c.meta[k].ok \/ ~c.pkl[k].ok THEN "damaged"
    ELSE IF t - c.meta[k].body.timestamp > TTL_HOURS THEN "expired"
    ELSE "valid"

\* both files of the entry are in the directory
InCache(c, k) == c.pkl[k].exists /\ c.meta[k].exists

\* stored after a set or a clear: an entry that is gone is no longer kept
Dropped(st, c) ==
    [k \in CacheKeys |-> IF InCache(c, k) THEN st[k]
                         ELSE [st[k] EXCEPT !.kept = FALSE]]

CGet(b, f, fail) ==
    LET k == ComputeHash(b, f, NoInt)
        r == CacheGet(cache, b, f, now, fail)
    IN  /\ cache.meta[k].body.access_count < MaxAccess
        /\ Inject(fail)
        /\ cache' = r.cache
        /\ lastOp' = [op |-> "get", key |-> k, faulty |-> fail # "none",
                      hit |-> r.hit, why |-> r.why, data |-> r.data,
                      at |-> now, pre |-> Found(cache, k, now)]
        /\ stored' = IF fail = "meta_write" /\ ~r.cache.meta[k].ok
                      THEN [stored EXCEPT ![k].valid = FALSE] ELSE stored
        /\ UNCHANGED <<now, disk, jobVars, clientVars, out>>

CSet(b, f, n, fail) ==
    LET k == ComputeHash(b, f, NoInt)
        data == DatasetOf(b, f, n)
        c2 == CacheSet(cache, b, f, data, now, fail)
    IN  /\ Inject(fail)
        /\ cache' = c2
        /\ lastOp' = [op |-> "set", key |-> k, faulty |-> fail # "none",
                      hit |-> FALSE, why |-> "", data |-> data, at |-> now,
                      pre |-> Found(cache, k, now)]
        /\ stored' = Dropped(
               IF fail = "none"
               THEN [stored EXCEPT ![k] = [valid |-> TRUE, kept |-> TRUE,
                                           data |-> data, ts |-> now]]
               ELSE IF fail = "hash" THEN stored
               ELSE [stored EXCEPT ![k].valid = FALSE],
               c2)
        /\ UNCHANGED <<now, disk, jobVars, clientVars, out>>

CClear ==
    /\ cache' = CacheClear(cache)
    /\ lastOp' = [NoOp EXCEPT !.op = "clear", !.at = now]
    /\ stored' = Dropped(stored, cache')
    /\ UNCHANGED <<now, disk, faults, jobVars, clientVars, out>>

CacheInit ==
    /\ now = 0
    /\ cache = EmptyCache
    /\ faults = 0
    /\ lastOp = NoOp
    /\ stored = [k \in CacheKeys |-> NoStored]
    /\ JobInit
    /\ SideInit

CacheNext ==
    \/ Tick /\ UNCHANGED <<out, sideVars>>
    \/ \E b \in CacheCallBytes, f \in BOOLEAN, fail \in GetFails :
          CGet(b, f, fail) /\ UNCHANGED sideVars
    \/ \E b \in CacheCallBytes, f \in BOOLEAN, n \in CacheCallPoints,
          fail \in SetFails :
          CSet(b, f, n, fail) /\ UNCHANGED sideVars
    \/ CClear /\ UNCHANGED sideVars

CacheSpec == CacheInit /\ [][CacheNext]_vars

(***************************************************************************)
(* The time series on its way to the surface plot (checked under           *)
(* VisitSpec): identify_visits called on its own, and the path of a job    *)
(* from process_mast_files_with_gaps to create_surface_plot_with_visits    *)
(***************************************************************************)
\* the time arrays of at most n samples over the values vals
RECURSIVE Arrays(_, _)
Arrays(vals, n) ==
    IF n = 0 THEN {<<>>}
    ELSE LET shorter == Arrays(vals, n - 1)
         IN  shorter \cup {Append(a, v) : a \in {b \in shorter : Len(b) = n - 1},
                                          v \in vals}

\* any array, NaN among the samples
TimeArrays == Arrays((0..MaxHalfHours) \cup {NaN}, MaxSamples)

\* the times of the integrations a job has read: at least one, all finite
JobTimeArrays == {a \in Arrays(0..MaxHalfHours, MaxSamples) : Len(a) > 0}

GapThresholds == (-1)..MaxGap

\* identify_visits called by a client of the module
DirectCalls ==
    {[NoPlot EXCEPT !.pc = "call", !.caller = "direct", !.times_hours = a,
                    !.gap_threshold = g] :
        a \in TimeArrays, g \in GapThresholds}

\* jobs.py:328 and :361, the flag of the form; processing.py:361-363
JobCalls ==
    {[NoPlot EXCEPT !.pc = "process", !.caller = "job", !.times_hours = a,
                    !.use_interpolation = f] :
        a \in JobTimeArrays, f \in BOOLEAN}

VisitInit ==
    /\ now = 0
    /\ cache = EmptyCache
    /\ faults = 0
    /\ lastOp = NoOp
    /\ stored = [k \in CacheKeys |-> NoStored]
    /\ JobInit
    /\ export = NoExport
    /\ handler = NoHandler
    /\ conc = NoConc
    /\ plot \in DirectCalls \cup JobCalls
    /\ filt = NoFilt
    /\ grid = NoGrid
    /\ fitsLoad = NoLoad

Elsewhere ==
    UNCHANGED <<now, disk, cache, faults, lastOp, stored, jobVars,
                clientVars, out, filt, grid, fitsLoad, conc, handler, export>>

\* processing.py:126-150 called with the array and the threshold of a client
CallIdentifyVisits ==
    /\ plot.pc = "call"
    /\ plot' = [plot EXCEPT
                   !.pc = "done",
                   !.time = plot.times_hours,
                   !.visits = identify_visits(plot.times_hours,
                                              plot.gap_threshold)]
    /\ Elsewhere

\* processing.py:365-395: the times a job hands on, the grid when the form
\* asked for interpolation
ProcessTimes ==
    /\ plot.pc = "process"
    /\ plot' = [plot EXCEPT
                   !.pc = "plot",
                   !.time = IF plot.use_interpolation
                            THEN Linspace(plot.times_hours)
                            ELSE plot.times_hours,
                   !.scale = IF plot.use_interpolation
                             THEN GridScale(plot.times_hours) ELSE 1]
    /\ Elsewhere

\* jobs.py:233-247: the call names neither gap_threshold nor
\* use_interpolation, so both take their defaults (plotting.py:32);
\* plotting.py:145-149
SurfacePlot ==
    /\ plot.pc = "plot"
    /\ plot' = [plot EXCEPT
                   !.pc = "done",
                   !.gap_threshold = GAP_THRESHOLD,
                   !.visits = SurfaceVisits(plot.time,
                                            GAP_THRESHOLD * plot.scale,
                                            FALSE)]
    /\ Elsewhere

VisitNext ==
    \/ CallIdentifyVisits
    \/ ProcessTimes
    \/ SurfacePlot

VisitSpec == VisitInit /\ [][VisitNext]_vars

(***************************************************************************)
(* The filter stage of a job (checked under RangeSpec): stage 6 of         *)
(* _run_mast_job with the axes of the dataset and the ranges of the form   *)
(***************************************************************************)
\* the strictly increasing arrays over lo..hi, as sequences
RECURSIVE Increasing(_, _)
Increasing(lo, hi) ==
    IF lo > hi THEN {<<>>}
    ELSE LET rest == Increasing(lo + 1, hi)
         IN  rest \cup {<<lo>> \o a : a \in rest}

\* processing.py:294-298, the common wavelength grid of a dataset
WavelengthAxes == Increasing(1, MaxWave) \ {<<>>}

\* processing.py:361-363, the times of a dataset
TimeAxes == Increasing(1, MaxHours) \ {<<>>}

\* jobs.py:333-350: no range, or two bounds of which one may be empty
Ranges(top) ==
    {<<>>} \cup ({<<a, b>> : a \in (0..(top + 1)) \cup {NoInt},
                            b \in (0..(top + 1)) \cup {NoInt}}
                 \ {<<NoInt, NoInt>>})

RangeInit ==
    /\ now = 0
    /\ cache = EmptyCache
    /\ faults = 0
    /\ lastOp = NoOp
    /\ stored = [k \in CacheKeys |-> NoStored]
    /\ JobInit
    /\ export = NoExport
    /\ handler = NoHandler
    /\ conc = NoConc
    /\ plot = NoPlot
    /\ grid = NoGrid
    /\ fitsLoad = NoLoad
    /\ filt \in {[NoFilt EXCEPT !.pc = "filter", !.wavelength_1d = w,
                                !.time_1d = t, !.wavelength_range = wr,
                                !.time_range = tr] :
                    w \in WavelengthAxes, t \in TimeAxes,
                    wr \in Ranges(MaxWave), tr \in Ranges(MaxHours)}

OutsideFilter ==
    UNCHANGED <<now, disk, cache, faults, lastOp, stored, jobVars,
                clientVars, out, plot, grid, fitsLoad, conc, handler, export>>

\* jobs.py:189-207
ApplyFilters ==
    /\ filt.pc = "filter"
    /\ LET r == IF filt.wavelength_range # <<>> \/ filt.time_range # <<>>
                THEN apply_data_ranges(filt.wavelength_1d, filt.time_1d,
                                       filt.wavelength_range,
                                       filt.time_range)
                ELSE [wavelength |-> filt.wavelength_1d,
                      time |-> filt.time_1d, range_info |-> <<>>,
                      warnings |-> <<>>]
       IN  filt' = [filt EXCEPT !.pc = "log",
                                !.wavelength_1d_norm = r.wavelength,
                                !.time_1d_norm = r.time,
                                !.user_ranges = r.range_info,
                                !.log = r.warnings]
    /\ OutsideFilter

\* jobs.py:209-212: min() of an empty array raises ValueError, which the
\* except clause of jobs.py:286-288 turns into status 'error'
LogFinalData ==
    /\ filt.pc = "log"
    /\ filt' = IF filt.time_1d_norm = <<>>
               THEN [filt EXCEPT !.pc = "ended", !.status = "error",
                                 !.message = "zero-size array"]
               ELSE [filt EXCEPT !.pc = "plot"]
    /\ OutsideFilter

\* jobs.py:233-247 with processing.py:114-118: nanmin of an empty Z raises
\* ValueError; jobs.py:284 otherwise
RenderPlots ==
    /\ filt.pc = "plot"
    /\ filt' = IF filt.wavelength_1d_norm = <<>>
               THEN [filt EXCEPT !.pc = "ended", !.status = "error",
                                 !.message = "zero-size array"]
               ELSE [filt EXCEPT !.pc = "ended", !.status = "done"]
    /\ OutsideFilter

RangeNext ==
    \/ ApplyFilters
    \/ LogFinalData
    \/ RenderPlots

RangeSpec == RangeInit /\ [][RangeNext]_vars

(***************************************************************************)
(* Regridding of a batch (checked under GridSpec): stages 3 to 5 of        *)
(* process_mast_files_with_gaps                                            *)
(***************************************************************************)
\* the wavelength coverage of one integration: at least two samples
Coverages ==
    {c \in [wl_min : 0..MaxCover, wl_max : 0..MaxCover] :
        c.wl_min < c.wl_max}

\* processing.py:286-290, the non-empty batches; time is the index of the
\* integration in the sorted batch
Batches ==
    UNION {[1..n -> Coverages] : n \in 1..MaxBatch}

GridInit ==
    /\ now = 0
    /\ cache = EmptyCache
    /\ faults = 0
    /\ lastOp = NoOp
    /\ stored = [k \in CacheKeys |-> NoStored]
    /\ JobInit
    /\ export = NoExport
    /\ handler = NoHandler
    /\ conc = NoConc
    /\ plot = NoPlot
    /\ filt = NoFilt
    /\ fitsLoad = NoLoad
    /\ grid \in {[NoGrid EXCEPT !.pc = "grid", !.all_integrations = b,
                                !.use_interpolation = f] :
                    b \in Batches, f \in BOOLEAN}

OutsideGrid ==
    UNCHANGED <<now, disk, cache, faults, lastOp, stored, jobVars,
                clientVars, out, plot, filt, fitsLoad, conc, handler, export>>

\* processing.py:294-302
MakeGrid ==
    /\ grid.pc = "grid"
    /\ grid' = [grid EXCEPT
                   !.pc = "regrid",
                   !.common_wl = CommonWl(MinWl(grid.all_integrations),
                                          MaxWl(grid.all_integrations),
                                          N_WAVE)]
    /\ OutsideGrid

\* processing.py:319-343, one pass of the loop: f_interp(common_wl) and
\* e_interp(common_wl) have the length of common_wl
RegridOne ==
    /\ grid.pc = "regrid"
    /\ Len(grid.times) < Len(grid.all_integrations)
    /\ grid' = [grid EXCEPT
                   !.flux_raw_list = Append(@, Len(grid.common_wl)),
                   !.error_raw_list = Append(@, Len(grid.common_wl)),
                   !.times = Append(@, Len(grid.times) + 1)]
    /\ OutsideGrid

\* processing.py:359-363
Assemble ==
    /\ grid.pc = "regrid"
    /\ Len(grid.times) = Len(grid.all_integrations)
    /\ grid' = [grid EXCEPT
                   !.pc = "interpolate",
                   !.flux_raw_2d = Transposed(grid.flux_raw_list),
                   !.error_raw_2d = Transposed(grid.error_raw_list),
                   !.times_hours =
                       [k \in 1..Len(grid.times) |->
                           grid.times[k] - MinOf(grid.times)]]
    /\ OutsideGrid

\* processing.py:365-395
Interpolate ==
    /\ grid.pc = "interpolate"
    /\ grid' = IF grid.use_interpolation
               THEN LET time_grid == Linspace(grid.times_hours)
                    IN  [grid EXCEPT
                            !.pc = "normalise",
                            !.flux_raw_2d = <<grid.flux_raw_2d[1],
                                              Len(time_grid)>>,
                            !.error_raw_2d = <<grid.error_raw_2d[1],
                                               Len(time_grid)>>,
                            !.times_hours = time_grid]
               ELSE [grid EXCEPT !.pc = "normalise"]
    /\ OutsideGrid

\* processing.py:405 with :152-159, then the return of :426
Normalise ==
    /\ grid.pc = "normalise"
    /\ grid' = [grid EXCEPT !.pc = "returned",
                            !.flux_norm_2d = grid.flux_raw_2d]
    /\ OutsideGrid

GridNext ==
    \/ MakeGrid
    \/ RegridOne
    \/ Assemble
    \/ Interpolate
    \/ Normalise

GridSpec == GridInit /\ [][GridNext]_vars

(***************************************************************************)
(* The FITS loader on one file (checked under LoadSpec)                    *)
(***************************************************************************)
\* the EXTRACT1D extensions a file can hold
Hdus == [ver : 1..MaxHdus, rows : 0..MaxRows, time_cols : BOOLEAN]

\* data_io.py:150-159: files with INT_TIMES and at least one EXTRACT1D
FitsFiles ==
    UNION {[1..n -> Hdus] : n \in 1..MaxHdus}

LoadInit ==
    /\ now = 0
    /\ cache = EmptyCache
    /\ faults = 0
    /\ lastOp = NoOp
    /\ stored = [k \in CacheKeys |-> NoStored]
    /\ JobInit
    /\ export = NoExport
    /\ handler = NoHandler
    /\ conc = NoConc
    /\ plot = NoPlot
    /\ filt = NoFilt
    /\ grid = NoGrid
    /\ fitsLoad \in {[NoLoad EXCEPT !.pc = "detect", !.hdus = h, !.nint = n] :
                        h \in FitsFiles, n \in 1..MaxInts}

OutsideLoad ==
    UNCHANGED <<now, disk, cache, faults, lastOp, stored, jobVars,
                clientVars, out, plot, filt, grid, conc, handler, export>>

\* data_io.py:188-197: hdul['EXTRACT1D'] is the first extension of the name
DetectLayout ==
    /\ fitsLoad.pc = "detect"
    /\ fitsLoad' = [fitsLoad EXCEPT
                       !.pc = "dispatch",
                       !.has_table_format = fitsLoad.hdus[1].rows > 0,
                       !.has_time_in_table = fitsLoad.hdus[1].time_cols]
    /\ OutsideLoad

\* data_io.py:199 and :258-267: the test of hdul['EXTRACT1D', 1] runs in
\* the else branch only
ChooseBranch ==
    /\ fitsLoad.pc = "dispatch"
    /\ LET embedded == fitsLoad.has_table_format
                          /\ fitsLoad.has_time_in_table
           individual == ~embedded /\ ExtVer(fitsLoad.hdus, 1) # {}
       IN  fitsLoad' = [fitsLoad EXCEPT
                           !.pc = "load",
                           !.has_individual_extensions = individual,
                           !.branch = Dispatch(fitsLoad.has_table_format,
                                               fitsLoad.has_time_in_table,
                                               individual)]
    /\ OutsideLoad

\* data_io.py:200-366, the handler of the branch, and :368-377
LoadIntegrations ==
    /\ fitsLoad.pc = "load"
    /\ LET loaded == IF fitsLoad.branch = "embedded"
                     THEN EmbeddedRows(fitsLoad.hdus)
                     ELSE IF fitsLoad.branch = "individual"
                     THEN IndividualExtensions(fitsLoad.hdus, fitsLoad.nint)
                     ELSE TableRows(fitsLoad.hdus, fitsLoad.nint)
       IN  fitsLoad' = [fitsLoad EXCEPT
                           !.pc = "returned",
                           !.integrations = loaded,
                           !.returned = IF loaded = <<>> THEN "None"
                                        ELSE "integrations"]
    /\ OutsideLoad

LoadNext ==
    \/ DetectLayout
    \/ ChooseBranch
    \/ LoadIntegrations

LoadSpec == LoadInit /\ [][LoadNext]_vars

(***************************************************************************)
(* Concurrent calls of the cache (checked under ConcSpec): every action is *)
(* one file operation of get, set, _remove_entry or clear by one thread    *)
(***************************************************************************)
ConcInit ==
    /\ now = 0
    /\ cache = EmptyCache
    /\ faults = 0
    /\ lastOp = NoOp
    /\ stored = [k \in CacheKeys |-> NoStored]
    /\ JobInit
    /\ export = NoExport
    /\ handler = NoHandler
    /\ plot = NoPlot
    /\ filt = NoFilt
    /\ grid = NoGrid
    /\ fitsLoad = NoLoad
    /\ conc \in {NoConc, StoredConc}

OutsideConc ==
    UNCHANGED <<now, disk, cache, faults, lastOp, stored, jobVars,
                clientVars, out, plot, filt, grid, fitsLoad, handler, export>>

\* thread t leaves the cache
Return(c, t, why) == [c EXCEPT !.th[t] = [NoThread EXCEPT !.why = why]]

\* cache_manager.py:104-111, the entry of get and its test of existence
ConcGetBegin(t) ==
    /\ conc.th[t].pc = "idle"
    /\ conc.calls < MaxCalls
    /\ conc' = IF ~conc.pkl \/ ~conc.meta.exists
               THEN [Return(conc, t, "not found") EXCEPT !.calls = @ + 1]
               ELSE [conc EXCEPT !.calls = @ + 1,
                                 !.th[t].pc = "read_meta"]
    /\ OutsideConc

\* cache_manager.py:113-122: open() of a sidecar that is gone raises, and
\* the except clause of :140-143 returns None
ConcReadMeta(t) ==
    /\ conc.th[t].pc = "read_meta"
    /\ conc' = IF ~conc.meta.exists THEN Return(conc, t, "error")
               ELSE [conc EXCEPT
                        !.th[t].metadata = conc.meta.body,
                        !.th[t].pc =
                            IF Expired(now - conc.meta.body.timestamp)
                            THEN "remove_pkl" ELSE "read_data"]
    /\ OutsideConc

\* cache_manager.py:128-129
ConcReadData(t) ==
    /\ conc.th[t].pc = "read_data"
    /\ conc' = IF ~conc.pkl THEN Return(conc, t, "error")
               ELSE [conc EXCEPT !.th[t].pc = "write_meta"]
    /\ OutsideConc

\* cache_manager.py:131-138: the copy read at :113 is changed and written
\* back; open(meta_path, 'w') creates the file when it is gone
ConcWriteMeta(t) ==
    /\ conc.th[t].pc = "write_meta"
    /\ conc' = [Return(conc, t, "hit") EXCEPT
                   !.meta = [exists |-> TRUE,
                             body |-> [conc.th[t].metadata EXCEPT
                                          !.last_access = now,
                                          !.access_count = @ + 1]],
                   !.hits = @ + 1,
                   !.hit_at = now]
    /\ OutsideConc

\* cache_manager.py:210-214, _remove_entry called at :121
ConcRemoveData(t) ==
    /\ conc.th[t].pc = "remove_pkl"
    /\ conc' = [conc EXCEPT !.pkl = FALSE, !.th[t].pc = "remove_meta"]
    /\ OutsideConc

\* cache_manager.py:216-218
ConcRemoveMeta(t) ==
    /\ conc.th[t].pc = "remove_meta"
    /\ conc' = [Return(conc, t, "expired") EXCEPT
                   !.meta = [exists |-> FALSE, body |-> NoMeta]]
    /\ OutsideConc

\* cache_manager.py:162-169, the entry of set and the write of the data file
ConcSetBegin(t) ==
    /\ conc.th[t].pc = "idle"
    /\ conc.calls < MaxCalls
    /\ conc' = [conc EXCEPT !.calls = @ + 1, !.pkl = TRUE,
                            !.th[t].pc = "set_meta"]
    /\ OutsideConc

\* cache_manager.py:171-196: the sidecar; one entry is below the size cap,
\* so _enforce_size_limit removes nothing
ConcSetMeta(t) ==
    /\ conc.th[t].pc = "set_meta"
    /\ conc' = [Return(conc, t, "stored") EXCEPT
                   !.meta = [exists |-> TRUE,
                             body |-> [NoMeta EXCEPT !.timestamp = now,
                                                     !.last_access = now]],
                   !.hits = 0,
                   !.set_at = now,
                   !.hit_at = now]
    /\ OutsideConc

\* cache_manager.py:286, clear lists the directory
ConcClearList(t) ==
    /\ conc.th[t].pc = "idle"
    /\ conc.calls < MaxCalls
    /\ conc' = LET names == {n \in {"pkl", "meta"} :
                                IF n = "pkl" THEN conc.pkl
                                ELSE conc.meta.exists}
               IN  IF names = {}
                   THEN [Return(conc, t, "cleared") EXCEPT !.calls = @ + 1]
                   ELSE [conc EXCEPT !.calls = @ + 1,
                                     !.th[t].pc = "clear",
                                     !.th[t].listed = names]
    /\ OutsideConc

\* cache_manager.py:287-291, one pass of the loop: a name that is no
\* longer a file is skipped
ConcClearRemove(t) ==
    /\ conc.th[t].pc = "clear"
    /\ \E n \in conc.th[t].listed :
          LET c1 == IF n = "pkl" THEN [conc EXCEPT !.pkl = FALSE]
                    ELSE [conc EXCEPT
                             !.meta = [exists |-> FALSE, body |-> NoMeta]]
              left == conc.th[t].listed \ {n}
          IN  conc' = IF left = {} THEN Return(c1, t, "cleared")
                      ELSE [c1 EXCEPT !.th[t].listed = left]
    /\ OutsideConc

ConcNext ==
    \/ Tick /\ UNCHANGED <<out, sideVars>>
    \/ \E t \in Threads :
          \/ ConcGetBegin(t) \/ ConcReadMeta(t) \/ ConcReadData(t)
          \/ ConcWriteMeta(t) \/ ConcRemoveData(t) \/ ConcRemoveMeta(t)
          \/ ConcSetBegin(t) \/ ConcSetMeta(t)
          \/ ConcClearList(t) \/ ConcClearRemove(t)

ConcSpec == ConcInit /\ [][ConcNext]_vars

(***************************************************************************)
(* One request in a handler (checked under HandlerSpec)                    *)
(***************************************************************************)
Requests ==
    {[NoHandler EXCEPT !.pc = "begin", !.route = r, !.bytes = b,
                       !.use_demo = d, !.num_integrations = n,
                       !.time_range_min = t] :
        r \in {"start_mast", "upload_mast"},
        b \in ArchiveBytes \cup {NotAZip}, d \in BOOLEAN,
        n \in NumberTexts, t \in NumberTexts}

HandlerInit ==
    /\ now = 0
    /\ cache = EmptyCache
    /\ faults = 0
    /\ lastOp = NoOp
    /\ stored = [k \in CacheKeys |-> NoStored]
    /\ JobInit
    /\ export = NoExport
    /\ plot = NoPlot
    /\ filt = NoFilt
    /\ grid = NoGrid
    /\ fitsLoad = NoLoad
    /\ conc = NoConc
    /\ handler \in Requests

OutsideHandler ==
    UNCHANGED <<now, disk, cache, faults, lastOp, stored, jobVars,
                clientVars, out, plot, filt, grid, fitsLoad, conc, export>>

\* jobs.py:303-319: the demo archive is used in place, an upload is saved
SaveUpload ==
    /\ handler.pc = "begin" /\ handler.route = "start_mast"
    /\ handler' = IF handler.use_demo
                  THEN [handler EXCEPT !.pc = "parse"]
                  ELSE [handler EXCEPT !.pc = "parse", !.tmp_zip = TRUE]
    /\ OutsideHandler

\* jobs.py:321-353 with the except clause of :374-376
ParseForm ==
    /\ handler.pc = "parse" /\ handler.route = "start_mast"
    /\ handler' = IF Unparsable(handler.num_integrations)
                  THEN Respond(handler, 400, "invalid literal for int()")
                  ELSE IF Unparsable(handler.time_range_min)
                  THEN Respond(handler, 400, "could not convert to float")
                  ELSE [handler EXCEPT !.pc = "spawn"]
    /\ OutsideHandler

\* jobs.py:355-372: the worker thread takes over the archive
SpawnThread ==
    /\ handler.pc = "spawn"
    /\ handler' = [Respond(handler, 202, "") EXCEPT !.thread = TRUE]
    /\ OutsideHandler

\* upload.py:269-311: the form is parsed before anything is created
ParseUpload ==
    /\ handler.pc = "begin" /\ handler.route = "upload_mast"
    /\ handler' = IF Unparsable(handler.num_integrations)
                  THEN Respond(handler, 400, "invalid literal for int()")
                  ELSE IF Unparsable(handler.time_range_min)
                  THEN Respond(handler, 400, "could not convert to float")
                  ELSE [handler EXCEPT !.pc = "sort", !.temp_dir = TRUE]
    /\ OutsideHandler

\* upload.py:312-340, the inner try with its except clause
ExtractAndSort ==
    /\ handler.pc = "sort"
    /\ handler' = IF handler.bytes = NotAZip
                  THEN [Respond(handler, 400,
                                "Error sorting files by observation time.")
                           EXCEPT !.temp_dir = FALSE]
                  ELSE [handler EXCEPT !.pc = "process"]
    /\ OutsideHandler

\* upload.py:342-349 with the outer except clause of :435-437
ProcessUpload ==
    /\ handler.pc = "process"
    /\ handler' = IF NoIntegrationsLoaded(handler.bytes)
                  THEN Respond(handler, 400,
                               "No valid integrations found in files")
                  ELSE [handler EXCEPT !.pc = "plot"]
    /\ OutsideHandler

\* upload.py:351-433
PlotUpload ==
    /\ handler.pc = "plot"
    /\ handler' = [Respond(handler, 200, "") EXCEPT !.temp_dir = FALSE]
    /\ OutsideHandler

HandlerNext ==
    \/ SaveUpload
    \/ ParseForm
    \/ SpawnThread
    \/ ParseUpload
    \/ ExtractAndSort
    \/ ProcessUpload
    \/ PlotUpload

HandlerSpec == HandlerInit /\ [][HandlerNext]_vars

(***************************************************************************)
(* Jobs finishing while a download runs (checked under ExportSpec)         *)
(***************************************************************************)
ExportInit ==
    /\ now = 0
    /\ cache = EmptyCache
    /\ faults = 0
    /\ lastOp = NoOp
    /\ stored = [k \in CacheKeys |-> NoStored]
    /\ JobInit
    /\ plot = NoPlot
    /\ filt = NoFilt
    /\ grid = NoGrid
    /\ fitsLoad = NoLoad
    /\ conc = NoConc
    /\ handler = NoHandler
    /\ export = NoExport

OutsideExport ==
    UNCHANGED <<now, disk, cache, faults, lastOp, stored, jobVars,
                clientVars, out, plot, filt, grid, fitsLoad, conc, handler>>

\* jobs.py:266-270: the next of the five assignments of job j
StoreAttribute(j) ==
    /\ export.written[j] < Len(Attributes)
    /\ export' = [export EXCEPT !.written[j] = @ + 1,
                                !.state[export.written[j] + 1] = j]
    /\ OutsideExport

\* upload.py:33-41: a request for /download_plots arrives
DownloadBegin ==
    /\ export.at = 0
    /\ export.downloads < MaxDownloads
    /\ export' = [export EXCEPT !.at = 1, !.downloads = @ + 1,
                                !.got = NoAttributes, !.code = 0,
                                !.zip = NoAttributes]
    /\ OutsideExport

\* upload.py:42-46: the next of the five reads
ReadAttribute ==
    /\ export.at \in 1..Len(Attributes)
    /\ export' = [export EXCEPT !.at = @ + 1,
                                !.got[export.at] = export.state[export.at]]
    /\ OutsideExport

\* upload.py:48-49 and the archive built from what was read
DownloadEnd ==
    /\ export.at = Len(Attributes) + 1
    /\ export' = IF export.got[1] = NoJob \/ export.got[2] = NoJob
                 THEN [export EXCEPT !.at = 0, !.code = 400]
                 ELSE [export EXCEPT !.at = 0, !.code = 200,
                                     !.zip = export.got]
    /\ OutsideExport

ExportNext ==
    \/ \E j \in ExportJobs : StoreAttribute(j)
    \/ DownloadBegin
    \/ ReadAttribute
    \/ DownloadEnd

ExportSpec == ExportInit /\ [][ExportNext]_vars

(***************************************************************************)
(* Properties of the job manager (checked under Spec)                      *)
(***************************************************************************)
Submitted(j) == PROGRESS[j].gen > 0

\* the worker thread of job j has ended
Ended(j) == pc[j] \in {"exited", "crashed"}

\* C1: within one job the percent stored in the job record, and so the
\* percent successive polls return, never decreases, on the cache-hit path
\* and on the cache-miss path alike.
C1_PercentNeverDecreases ==
    [][\A j \in JobIds :
          Submitted(j) => PROGRESS'[j].percent >= PROGRESS[j].percent]_vars

\* C2: whenever no update of the record is under way, and in every snapshot
\* a poll returns, percent lies in [0, 99] while status is not done; status
\* done always comes with percent 100, and status turns done only in the
\* update that sets percent to 100.
C2_PercentClamped ==
    /\ [](/\ \A j \in JobIds :
              Submitted(j) =>
                 /\ PROGRESS[j].status = "done" =>
                       PROGRESS[j].percent = Pct(100)
                 /\ PROGRESS[j].status # "done" /\ ~call[j].active =>
                       PROGRESS[j].percent \in 0..Pct(99)
          /\ out.kind = "record" =>
                IF out.status = "done" THEN out.percent = Pct(100)
                ELSE out.percent \in 0..Pct(99))
    /\ [][\A j \in JobIds :
             PROGRESS[j].status # "done" /\ PROGRESS'[j].status = "done" =>
                call[j].active /\ call[j].a.percent = Pct(100)]_vars

C2_Witness ==
    \E j \in JobIds :
       /\ PROGRESS[j].status = "done"
       /\ PROGRESS[j].percent = Pct(100)
       /\ out.kind = "record" /\ out.status = "done"

\* C3: while the job is running fetch_result answers "not ready", never an
\* error and never a payload; status done is never visible before the
\* payload is stored; a fetch_result that begins after done returns the
\* stored payload; and the stored payload never changes, so every later
\* fetch_result returns the same one.
C3_FetchResult ==
    /\ [](/\ \A j \in JobIds :
              PROGRESS[j].status = "done" => RESULTS[j].present
          /\ out.req = "fetch" /\ out.kind # "unknown job" =>
                /\ PROGRESS[out.job].status = "running" =>
                      out.kind = "not ready"
                /\ out.kind # "no payload"
                /\ out.began = "done" => out.kind = "payload"
                /\ out.kind = "payload" =>
                      /\ PROGRESS[out.job].status = "done"
                      /\ out.payload = RESULTS[out.job]
                      /\ out.payload.present)
    /\ [][\A j \in JobIds :
             RESULTS[j].present => RESULTS'[j] = RESULTS[j]]_vars

C3_Witness == out.req = "fetch" /\ out.kind = "payload" /\ out.began = "done"

\* C4: once a job's status is error, every poll returns a record with
\* status error and the exception text as message, every fetch_result that
\* reads the error returns that same text as a failure, and no payload is
\* stored or returned for the job.
C4_ErrorSurfaced ==
    /\ \A j \in JobIds : PROGRESS[j].status = "error" => ~RESULTS[j].present
    /\ out.req = "poll" /\ out.kind = "record"
           /\ PROGRESS[out.job].status = "error" =>
          out.status = "error" /\ out.message = loc[out.job].err
    /\ out.req = "fetch" /\ out.kind # "unknown job"
           /\ PROGRESS[out.job].status = "error" =>
          /\ out.kind \in {"error", "not ready"}
          /\ out.began = "error" => out.kind = "error"
          /\ out.kind = "error" => out.message = loc[out.job].err

C4_Witness ==
    /\ out.req = "fetch" /\ out.kind = "error" /\ out.began = "error"
    /\ out.message = "No valid integrations found in files"

\* processing.py:173-287: no file of the archive delivers an integration
NoValidData(bytes) ==
    LET scans == ValidScans(Unzip(bytes))
    IN  \A i \in DOMAIN scans : scans[i].loaded = 0

\* C5: an exception raised inside the try block of the job (use of the
\* cached data, extraction, scan, read, regrid, interpolate, finalize; an
\* archive with no valid file or with no valid integration included) ends
\* the job with status error, stage error and the exception text as
\* message, and such a job never has status done.
C5_ErrorsEndJob ==
    \A j \in JobIds :
       /\ loc[j].err # "" =>
             /\ PROGRESS[j].status # "done"
             /\ ~RESULTS[j].present
             /\ ~call[j].active =>
                   /\ PROGRESS[j].status = "error"
                   /\ PROGRESS[j].stage = "error"
                   /\ PROGRESS[j].message = loc[j].err
       /\ pc[j] = "exited" /\ NoValidData(args[j].bytes) =>
             PROGRESS[j].status = "error" /\ loc[j].err # ""

C5_Witness ==
    \E j \in JobIds :
       /\ pc[j] = "exited"
       /\ loc[j].err = "No valid integrations found in files"
       /\ PROGRESS[j].status = "error"
       /\ PROGRESS[j].message = loc[j].err

\* C6: every submitted job reaches status done or error: once its worker
\* thread has ended, the job is not left in status running.
C6_EndedJobIsTerminal ==
    \A j \in JobIds :
       Ended(j) => PROGRESS[j].status \in {"done", "error"}

\* the stage machine: the order in which jobs.py and processing.py pass
\* stage= to _progress_set
MachineEdges ==
    {<<"queued", "scan">>, <<"scan", "read">>, <<"read", "regrid">>,
     <<"regrid", "interpolate">>, <<"regrid", "finalize">>,
     <<"interpolate", "finalize">>, <<"finalize", "done">>}

\* an update changes the stage of the record of job j
StageChange(j) == Submitted(j) /\ PROGRESS'[j].stage # PROGRESS[j].stage

\* C7: every change of a job's stage is an edge of the machine
\* queued -> scan -> read -> regrid -> [interpolate] -> finalize -> done,
\* or leads to error, and interpolate is entered only when gap-filling was
\* requested.
C7_StageMachine ==
    [][\A j \in JobIds :
          StageChange(j) =>
             /\ \/ <<PROGRESS[j].stage, PROGRESS'[j].stage>> \in MachineEdges
                \/ PROGRESS'[j].stage = "error"
             /\ PROGRESS'[j].stage = "interpolate" =>
                   args[j].use_interpolation]_vars

\* C7 as amended: a job served from the cache goes from read straight to
\* finalize; every other change is an edge of the machine or leads to
\* error, so the stage never moves back, and interpolate is entered only
\* when gap-filling was requested.
C7_StageMachineWithCacheHit ==
    [][\A j \in JobIds :
          StageChange(j) =>
             /\ \/ <<PROGRESS[j].stage, PROGRESS'[j].stage>> \in MachineEdges
                \/ PROGRESS'[j].stage = "error" /\ PROGRESS[j].stage # "done"
                \/ /\ <<PROGRESS[j].stage, PROGRESS'[j].stage>>
                         = <<"read", "finalize">>
                   /\ loc[j].hit
             /\ PROGRESS'[j].stage = "interpolate" =>
                   args[j].use_interpolation /\ ~loc[j].hit]_vars

C7_Witness ==
    \E j \in JobIds :
       loc[j].hit /\ PROGRESS[j].stage = "finalize" /\ ~call[j].active

\* C8: every read of a job record is made under PROG_LOCK, so get_results
\* never reads a field of a record while an update of that record is under
\* way.
C8_NoReadDuringUpdate ==
    [][\A j \in JobIds :
          (/\ cpc \in {"fetch_status", "fetch_message", "fetch_ready"}
           /\ cloc.job = j
           /\ cpc' # cpc) => ~call[j].active]_vars

TotalSize(c) == SumSizes(c, Readable(c))

\* position of cache_key in a sequence of keys, 0 when it is not in it
RECURSIVE Position(_, _)
Position(keys, cache_key) ==
    IF keys = <<>> THEN 0
    ELSE IF keys[Len(keys)] = cache_key THEN Len(keys)
    ELSE Position(SubSeq(keys, 1, Len(keys) - 1), cache_key)

C12_FailuresContained ==
    [][/\ lastOp'.op = "get" /\ lastOp'.faulty => ~lastOp'.hit
       /\ lastOp'.op = "set" /\ lastOp'.faulty => cache' = cache]_vars

\* the key of the archive and flag job j was submitted with
KeyOf(j) == ComputeHash(args[j].bytes, args[j].use_interpolation, NoInt)

\* the exceptions raised after the cache.set of the job (jobs.py:151-278)
AfterStoreErrors == {"filter failed", "plot failed"}

\* C13: a job with status error has left no entry in the cache: its key has
\* a complete entry only if the files of the key were in the directory
\* before the job looked the key up.
C13_FailedJobLeavesNoEntry ==
    \A j \in JobIds :
       PROGRESS[j].status = "error"
           /\ InCache(cache, KeyOf(j))
           /\ cache.pkl[KeyOf(j)].ok /\ cache.meta[KeyOf(j)].ok =>
          loc[j].had_data /\ loc[j].had_sidecar

\* C13 as amended: the only cache write of a job is the cache.set it makes
\* once the pipeline has returned the complete dataset, before sampling,
\* filtering and plotting: a data file or a sidecar is created or rewritten
\* with data only by that call, for the key of the job and with the whole
\* dataset of the archive; a job that fails before that call adds no file
\* to the cache, and a job that fails after it leaves what the call wrote.
C13_WritesOnlyAfterPipeline ==
    /\ [](\A j \in JobIds :
             loc[j].err # "" /\ loc[j].err \notin AfterStoreErrors =>
                /\ cache.pkl[KeyOf(j)].exists => loc[j].had_data
                /\ cache.meta[KeyOf(j)].exists => loc[j].had_sidecar)
    /\ [][\A k \in CacheKeys :
             \/ cache'.pkl[k].exists /\ cache'.pkl[k] # cache.pkl[k]
             \/ cache'.meta[k].exists /\ ~cache.meta[k].exists
             => \E j \in JobIds :
                   /\ pc[j] = "cache_set" /\ pc'[j] # "cache_set"
                   /\ k = KeyOf(j)
                   /\ loc[j].err = "" /\ ~loc[j].hit /\ loc[j].n > 0
                   /\ cache'.pkl[k].ok =>
                         cache'.pkl[k].body =
                            DatasetOf(args[j].bytes,
                                      args[j].use_interpolation, loc[j].n)]_vars

C13_Witness ==
    \E j \in JobIds :
       /\ PROGRESS[j].status = "error"
       /\ loc[j].err = "filter failed"
       /\ ~loc[j].had_data /\ ~loc[j].had_sidecar
       /\ InCache(cache, KeyOf(j))
       /\ cache.pkl[KeyOf(j)].ok /\ cache.meta[KeyOf(j)].ok

\* file contents the hash is probed with: the archives, and contents that
\* end like the text of a flag
HashInputs ==
    ArchiveBytes \cup {<<>>, <<84>>, <<3, 84, 114, 117, 101>>,
                       <<3, 70, 97, 108, 115, 101>>}

\* C14: the cache key is a function of the bytes of the file and of the
\* interpolation flag alone: two calls give the same key exactly when bytes
\* and flag agree, whatever num_integrations is, so a flipped flag gives
\* another key; and the lookup of a job, made with any num_integrations,
\* returns the dataset stored under the key of its bytes and flag when that
\* entry is complete and not expired and no step of the lookup fails.
C14_KeyOfBytesAndFlag ==
    /\ \A b1, b2 \in HashInputs, f1, f2 \in BOOLEAN,
          n1, n2 \in NumIntegrationsChoices \cup {NoInt} :
           (ComputeHash(b1, f1, n1) = ComputeHash(b2, f2, n2))
              <=> (b1 = b2 /\ f1 = f2)
    /\ [][\A j \in JobIds :
             /\ pc[j] = "cache_get" /\ pc'[j] # "cache_get"
             /\ faults' = faults
             /\ Found(cache, KeyOf(j), now) = "valid"
             => /\ loc'[j].hit
                /\ loc'[j].data = cache.pkl[KeyOf(j)].body
                /\ loc'[j].data.src = args[j].bytes
                /\ loc'[j].data.interp = args[j].use_interpolation]_vars

C14_Witness ==
    \E j \in JobIds :
       /\ loc[j].hit
       /\ args[j].num_integrations = 2
       /\ loc[j].data.src = args[j].bytes
       /\ loc[j].data.interp = args[j].use_interpolation
       /\ loc[j].data.time_points = 3


\* the payload of a job as a function of what was submitted: the dataset of
\* the archive, sampled to num_integrations when that is asked for
PayloadOf(a) ==
    LET full == DatasetOf(a.bytes, a.use_interpolation,
                          SumLoaded(ValidScans(Unzip(a.bytes))))
    IN  IF Sampling(a.num_integrations, full)
        THEN [full EXCEPT !.time_points = a.num_integrations]
        ELSE full

C16_CleanedUp ==
    \A j \in JobIds :
       Ended(j) =>
          /\ ~disk.temp_dir[j]
          /\ ~disk.archive[j]
          /\ disk.demo

\* C17: a poll or a fetch_result for a job id that has no record is answered
\* "unknown job" and with nothing else, a job id that has a record is never
\* answered so, and a record comes into the job table only by start_mast.
C17_UnknownJob ==
    /\ [](out.req \in {"poll", "fetch"} =>
             /\ ~Submitted(out.job) <=> out.kind = "unknown job"
             /\ out.kind = "unknown job" =>
                   out = [NoOut EXCEPT !.req = out.req, !.job = out.job,
                                       !.kind = "unknown job"])
    /\ [][\A j \in JobIds :
             ~Submitted(j) /\ PROGRESS'[j] # PROGRESS[j] =>
                pc[j] = "nojob" /\ pc'[j] = "spawn" /\ out' = NoOut]_vars

C17_Witness ==
    /\ out.req = "fetch" /\ out.kind = "unknown job"
    /\ ~Submitted(out.job)
    /\ PROGRESS[out.job] = NoRec

\* C18: after any update of a job record, eta_seconds is the explicit ETA
\* when one was supplied, and otherwise elapsed * (1 - frac) / frac
\* truncated when 0 < frac < 1 and null when frac is 0 or 1, frac being the
\* record's current percent / 100.
C18_EtaAfterUpdate ==
    [][\A j \in JobIds :
          ~call[j].active /\ call'[j].active =>
             PROGRESS'[j].eta_seconds =
                 Eta(PROGRESS'[j].percent, call'[j].a.eta_seconds,
                     now - PROGRESS'[j].started_at)]_vars

(***************************************************************************)
(* Properties of the visits (checked under VisitSpec)                      *)
(***************************************************************************)
\* C19: the ranges identify_visits returns are half-open, not empty, start
\* at 0, end at len(time) and each starts where the one before ends; a range
\* starts at index i >= 1 exactly when time[i] - time[i-1] > threshold; an
\* empty array gives no range and a single sample gives [(0, 1)].
C19_VisitsPartition ==
    plot.pc = "done" =>
       LET t == plot.time
           n == Len(t)
           thr == plot.gap_threshold * plot.scale
           v == plot.visits
           Starts == {v[k][1] : k \in 2..Len(v)}
       IN  /\ n = 0 => v = <<>>
           /\ n = 1 => v = <<<<0, 1>>>>
           /\ n > 0 => Len(v) > 0 /\ v[1][1] = 0 /\ v[Len(v)][2] = n
           /\ \A k \in 1..Len(v) : v[k][1] < v[k][2]
           /\ \A k \in 1..(Len(v) - 1) : v[k][2] = v[k + 1][1]
           /\ \A i \in 1..(n - 1) :
                 i \in Starts <=>
                    /\ t[i + 1] # NaN /\ t[i] # NaN
                    /\ t[i + 1] - t[i] > thr

C19_Witness ==
    /\ plot.pc = "done" /\ plot.caller = "direct"
    /\ plot.time = <<0, 0, 1, 3>>
    /\ plot.gap_threshold = 1
    /\ plot.visits = <<<<0, 3>>, <<3, 4>>>>

\* C20: when the form of a job asked for interpolation across time, the
\* surface of the job is built from the whole time series as one visit,
\* whatever the spacing of the samples.
C20_InterpolatedIsOneVisit ==
    plot.pc = "done" /\ plot.caller = "job" /\ plot.use_interpolation =>
       plot.visits = <<<<0, Len(plot.time)>>>>

(***************************************************************************)
(* Properties of the range filter (checked under RangeSpec)                *)
(***************************************************************************)
\* a range of the form was found invalid on this axis
Ignored(label) ==
    IF label = "Wavelength"
    THEN RangeInvalid(filt.wavelength_1d, filt.wavelength_range)
    ELSE RangeInvalid(filt.time_1d, filt.time_range)

\* C21: a wavelength or time range that is invalid after clamping to the
\* data extent is ignored: the axis keeps all its samples, the job does not
\* end in error when no other range is in force, and the metadata of the
\* result carries a warning about the ignored range.
C21_InvalidRangeIgnored ==
    filt.pc = "ended" =>
       /\ Ignored("Wavelength") =>
             /\ filt.wavelength_1d_norm = filt.wavelength_1d
             /\ ~RangeAccepted(filt.time_1d, filt.time_range) =>
                   filt.status = "done"
             /\ \E k \in 1..Len(filt.user_ranges) :
                   filt.user_ranges[k].axis = "Wavelength"
       /\ Ignored("Time") =>
             /\ filt.time_1d_norm = filt.time_1d
             /\ ~RangeAccepted(filt.wavelength_1d, filt.wavelength_range) =>
                   filt.status = "done"
             /\ \E k \in 1..Len(filt.user_ranges) :
                   filt.user_ranges[k].axis = "Time"

\* C30: a wavelength or time window whose bounds, clamped to the data
\* extent, satisfy min < max keeps at least one sample of its axis, and a
\* job all of whose given windows are accepted does not end in error.
C30_AcceptedWindowKeepsSamples ==
    filt.pc \in {"log", "plot", "ended"} =>
       /\ RangeAccepted(filt.wavelength_1d, filt.wavelength_range) =>
             filt.wavelength_1d_norm # <<>>
       /\ RangeAccepted(filt.time_1d, filt.time_range) =>
             filt.time_1d_norm # <<>>
       /\ (filt.pc = "ended" /\ ~Ignored("Wavelength") /\ ~Ignored("Time")) =>
             filt.status = "done"

(***************************************************************************)
(* Properties of the regridding (checked under GridSpec)                   *)
(***************************************************************************)
\* C22: for every non-empty batch of N integrations the raw-flux, the
\* normalized-flux and the error matrix returned all have the shape
\* (len(common_wl), len(times_hours)) with N columns, and common_wl is
\* strictly increasing.
C22_ShapesAndGrid ==
    grid.pc = "returned" =>
       LET shape == <<Len(grid.common_wl), Len(grid.times_hours)>>
       IN  /\ grid.flux_raw_2d = shape
           /\ grid.flux_norm_2d = shape
           /\ grid.error_raw_2d = shape
           /\ shape[2] = Len(grid.all_integrations)
           /\ \A k \in 1..(Len(grid.common_wl) - 1) :
                 grid.common_wl[k] < grid.common_wl[k + 1]

(***************************************************************************)
(* Properties of the FITS loader (checked under LoadSpec)                  *)
(***************************************************************************)
\* C23: the loader uses (1) the table with embedded time columns when the
\* table has rows and time columns, else (2) the single table with the
\* times of INT_TIMES when the table has rows, else (3) the individual
\* extensions when EXTRACT1D number 1 exists: a lower variant only when no
\* higher one is detected.
C23_LayoutPriority ==
    fitsLoad.pc \in {"load", "returned"} =>
       LET table == fitsLoad.hdus[1].rows > 0
           embedded == table /\ fitsLoad.hdus[1].time_cols
           individual == ExtVer(fitsLoad.hdus, 1) # {}
       IN  /\ embedded => fitsLoad.branch = "embedded"
           /\ ~embedded /\ table => fitsLoad.branch = "int_times"
           /\ ~table /\ individual => fitsLoad.branch = "individual"

(***************************************************************************)
(* Properties of concurrent cache calls (checked under ConcSpec)           *)
(***************************************************************************)
\* no thread is inside a cache operation
Quiet == \A t \in Threads : conc.th[t].pc = "idle"

\* C24: each hit adds exactly one to access_count, sets last_access to the
\* time of the hit and leaves timestamp as the set wrote it, also when jobs
\* hit the entry concurrently: with no call under way, the sidecar of an
\* entry hit k times since it was written has access_count k.
C24_HitsCounted ==
    Quiet /\ conc.pkl /\ conc.meta.exists =>
       /\ conc.meta.body.access_count = conc.hits
       /\ conc.meta.body.last_access = conc.hit_at
       /\ conc.meta.body.timestamp = conc.set_at

\* C25: whenever no cache operation is in progress, the data file of the
\* entry exists exactly when its sidecar exists.
C25_FilesInPairs ==
    Quiet => (conc.pkl <=> conc.meta.exists)

(***************************************************************************)
(* Properties of the request handlers (checked under HandlerSpec)          *)
(***************************************************************************)
\* C26: when start_mast or upload_mast answers with an error, the archive
\* the handler saved and the directory it created are gone.
C26_HandlersCleanUp ==
    handler.pc = "answered" /\ handler.code = 400 =>
       ~handler.tmp_zip /\ ~handler.temp_dir

(***************************************************************************)
(* Terminal records and counters (checked under Spec)                      *)
(***************************************************************************)
\* the record of job j is in a terminal status
Terminal(j) == PROGRESS[j].status \in {"done", "error"}

\* C27: done and error are absorbing: once the record of a job has status
\* done or error, no step changes its status, percent, stage or message,
\* and the payload stored for a done job is present and is neither replaced
\* nor removed.
C27_TerminalIsAbsorbing ==
    [][\A j \in JobIds :
          /\ Terminal(j) =>
                /\ PROGRESS'[j].status = PROGRESS[j].status
                /\ PROGRESS'[j].percent = PROGRESS[j].percent
                /\ PROGRESS'[j].stage = PROGRESS[j].stage
                /\ PROGRESS'[j].message = PROGRESS[j].message
          /\ PROGRESS[j].status = "done" =>
                RESULTS[j].present /\ RESULTS'[j] = RESULTS[j]]_vars

C27_Witness ==
    \E j \in JobIds :
       /\ pc[j] = "exited"
       /\ PROGRESS[j].status = "done"
       /\ PROGRESS[j].stage = "done"
       /\ RESULTS[j].present
       /\ out.req = "fetch" /\ out.job = j

\* C28: whenever the record of a job knows total_integrations, its
\* processed_integrations lies between 0 and total_integrations, in the
\* read, regrid and finalize stages alike.
C28_ProcessedWithinTotal ==
    \A j \in JobIds :
       PROGRESS[j].total_integrations # NoInt =>
          /\ 0 <= PROGRESS[j].processed_integrations
          /\ PROGRESS[j].processed_integrations
                <= PROGRESS[j].total_integrations

(***************************************************************************)
(* Properties of the export state (checked under ExportSpec)               *)
(***************************************************************************)
\* C29: the surface HTML, heatmap HTML, surface JSON, heatmap JSON and
\* custom bands a download packs all come from one and the same job.
C29_DownloadOfOneJob ==
    export.code = 200 =>
       \E j \in ExportJobs :
          \A a \in 1..Len(Attributes) : export.zip[a] = j

====
